---- MODULE Spec2Model ----
(***************************************************************************)
(* A model of the M3U8 playlist-rewriting proxy of ImShep                  *)
(* (api/m3u8-proxy.ts): the token codec, the URL resolution, the playlist  *)
(* rewrite and the request handlers.                                       *)
(*                                                                         *)
(* JavaScript strings are sequences of character codes (ASCII), so that    *)
(* the XOR cipher, the base64url coding, String.split, parseInt and        *)
(* encodeURIComponent are computed the way the code computes them.         *)
(***************************************************************************)
EXTENDS Integers, Sequences, FiniteSets, TLC

VARIABLES
    now,      \* Date.now(), in milliseconds
    held,     \* the token the client holds: how it was made, for which URL, when
    last,     \* the last operation and its result (a verification, a request)
    input,    \* the inputs of the pure-function specifications
    output,   \* what the function applied to `input` returned
    urlMappings,  \* the Map of api/proxy/[...path].ts: paths to URLs
    peerMappings, \* the urlMappings of a second instance of that proxy
    tokenCache    \* StreamService.tokenCache: channel ids to stream tokens

vars == <<now, held, last, input, output, urlMappings, peerMappings, tokenCache>>

None == [kind |-> "none"]

\* new Map()
EmptyMap == [k \in {} |-> <<>>]

\* a JavaScript null or undefined where a string may stand
Undefined == <<-1>>

----------------------------------------------------------------------------
(* Strings                                                                 *)

\* ":" "/" "?" "&"
Colon == <<58>>
Slash == <<47>>
Question == <<63>>
Ampersand == <<38>>

RECURSIVE Concat(_)
\* the concatenation of a sequence of strings
Concat(ss) ==
    IF ss = <<>> THEN <<>>
    ELSE IF Len(ss) = 1 THEN ss[1]
    ELSE Concat(SubSeq(ss, 1, Len(ss) \div 2)) \o
         Concat(SubSeq(ss, (Len(ss) \div 2) + 1, Len(ss)))

\* String.prototype.startsWith
StartsWith(s, p) == Len(s) >= Len(p) /\ SubSeq(s, 1, Len(p)) = p

\* String.prototype.includes
Includes(s, p) == \E i \in 1..(Len(s) - Len(p) + 1) : SubSeq(s, i, i + Len(p) - 1) = p

\* the last position up to i at which p occurs in s, 1-based; 0 when there is none
LastIndexFrom(s, p, i) ==
    LET at == {j \in 1..i : SubSeq(s, j, j + Len(p) - 1) = p}
    IN  IF at = {} THEN 0 ELSE CHOOSE j \in at : \A k \in at : k <= j

\* the first position from i on at which p occurs in s, 1-based; 0 when there is none
IndexFrom(s, p, i) ==
    LET at == {j \in i..(Len(s) - Len(p) + 1) : SubSeq(s, j, j + Len(p) - 1) = p}
    IN  IF at = {} THEN 0 ELSE CHOOSE j \in at : \A k \in at : j <= k

\* String.prototype.indexOf, 1-based; 0 when absent
IndexOf(s, p) == IndexFrom(s, p, 1)

\* String.prototype.lastIndexOf, 1-based; 0 when absent
LastIndexOf(s, p) == LastIndexFrom(s, p, Len(s) - Len(p) + 1)

\* String.prototype.split on a one-character separator: the parts between
\* the occurrences of the separator, always at least one part
Split(s, sep) ==
    LET at == SelectSeq([j \in 1..Len(s) |-> j], LAMBDA j : s[j] = sep)
        n == Len(at)
    IN  [k \in 1..(n + 1) |->
            SubSeq(s, IF k = 1 THEN 1 ELSE at[k - 1] + 1,
                      IF k = n + 1 THEN Len(s) ELSE at[k] - 1)]

\* Array.prototype.join
Join(parts, sep) ==
    IF parts = <<>> THEN <<>>
    ELSE parts[1] \o Concat([k \in 1..(Len(parts) - 1) |-> sep \o parts[k + 1]])

\* the strings over `alphabet` of length lo..hi
Strings(alphabet, lo, hi) == UNION {[1..n -> alphabet] : n \in lo..hi}

\* the characters String.prototype.trim and parseInt strip: tab, LF, VT, FF, CR, space
WhiteSpace == {9, 10, 11, 12, 13, 32}

RECURSIVE TrimStart(_)
TrimStart(s) == IF s # <<>> /\ Head(s) \in WhiteSpace THEN TrimStart(Tail(s)) ELSE s

RECURSIVE TrimEnd(_)
TrimEnd(s) ==
    IF s # <<>> /\ s[Len(s)] \in WhiteSpace THEN TrimEnd(SubSeq(s, 1, Len(s) - 1)) ELSE s

\* String.prototype.trim
Trim(s) == TrimEnd(TrimStart(s))

Digits == 48..57

RECURSIVE ToDecimal(_)
\* the decimal digits of a natural number, as template literals format it
ToDecimal(n) ==
    IF n < 10 THEN <<48 + n>> ELSE ToDecimal(n \div 10) \o <<48 + (n % 10)>>

RECURSIVE DigitsValue(_, _)
\* the value of the longest prefix of decimal digits of s, continuing from acc
DigitsValue(s, acc) ==
    IF s # <<>> /\ Head(s) \in Digits
    THEN DigitsValue(Tail(s), 10 * acc + (Head(s) - 48))
    ELSE acc

NaN == [nan |-> TRUE, val |-> 0]

\* parseInt(s) without a radix, s a string or undefined: leading white
\* space is skipped, one sign is read, then the longest run of decimal digits;
\* what follows the digits is ignored; no digit at all gives NaN.
\* (the strings of this model never start with "0x", the hexadecimal case)
parseInt(s) ==
    IF s = Undefined THEN NaN
    ELSE LET t == TrimStart(s)
             neg == t # <<>> /\ Head(t) = 45
             u == IF t # <<>> /\ Head(t) \in {43, 45} THEN Tail(t) ELSE t
         IN  IF u = <<>> \/ Head(u) \notin Digits THEN NaN
             ELSE [nan |-> FALSE,
                   val |-> IF neg THEN 0 - DigitsValue(u, 0) ELSE DigitsValue(u, 0)]

----------------------------------------------------------------------------
(* Token codec: api/m3u8-proxy.ts, lines 6-49                              *)

\* 'your-api-key-change-this', the default of process.env.API_KEY
API_KEY == <<121, 111, 117, 114, 45, 97, 112, 105, 45, 107, 101, 121, 45,
             99, 104, 97, 110, 103, 101, 45, 116, 104, 105, 115>>

\* API_KEY.substring(0, 16)
KeyLen == 16
TokenKey == SubSeq(API_KEY, 1, IF Len(API_KEY) < KeyLen THEN Len(API_KEY) ELSE KeyLen)

\* Math.floor(Date.now() / 60000): one-minute buckets
BucketMs == 60000
Bucket(t) == t \div BucketMs

RECURSIVE BitXor(_, _)
\* a ^ b on non-negative integers
BitXor(a, b) ==
    IF a = 0 THEN b
    ELSE IF b = 0 THEN a
    ELSE ((a + b) % 2) + 2 * BitXor(a \div 2, b \div 2)

\* the loop of lines 17-20 and 36-39: character i (0-based) is XORed with
\* key.charCodeAt(i % key.length)
XorKey(s) == [i \in 1..Len(s) |-> BitXor(s[i], TokenKey[((i - 1) % Len(TokenKey)) + 1])]

\* "ABCDEFGHIJKLMNOPQRSTUVWXYZabcdefghijklmnopqrstuvwxyz0123456789+/"
B64Alphabet ==
    <<65, 66, 67, 68, 69, 70, 71, 72, 73, 74, 75, 76, 77, 78, 79, 80, 81, 82,
      83, 84, 85, 86, 87, 88, 89, 90, 97, 98, 99, 100, 101, 102, 103, 104, 105,
      106, 107, 108, 109, 110, 111, 112, 113, 114, 115, 116, 117, 118, 119,
      120, 121, 122, 48, 49, 50, 51, 52, 53, 54, 55, 56, 57, 43, 47>>

Pad == 61    \* "="

\* Buffer.from(str): the UTF-8 bytes of a string; one byte per character below 128
\* (the XOR of two ASCII characters is below 128)
Utf8Encode(s) ==
    Concat([i \in 1..Len(s) |->
              IF s[i] < 128 THEN <<s[i]>>
              ELSE <<192 + (s[i] \div 64), 128 + (s[i] % 64)>>])

\* buf.toString(): bytes below 128 are characters, a two-byte sequence is the
\* character it encodes, and any other byte decodes to a character outside
\* ASCII (U+FFFD stands for all of them)
Utf8Decode(bytes) ==
    LET Lead(i) == /\ i \in 1..Len(bytes) - 1
                   /\ bytes[i] \in 194..223
                   /\ bytes[i + 1] \in 128..191
        decoded == [i \in 1..Len(bytes) |->
                      IF bytes[i] < 128 THEN bytes[i]
                      ELSE IF Lead(i) THEN (bytes[i] - 192) * 64 + (bytes[i + 1] - 128)
                      ELSE IF Lead(i - 1) THEN -1
                      ELSE 65533]
    IN  SelectSeq(decoded, LAMBDA c : c # -1)

\* buf.toString('base64'): three bytes to four characters, padded with "="
Base64Encode(bytes) ==
    LET n == Len(bytes)
        Group(g) ==
            LET i == 3 * g - 2
                b1 == bytes[i]
                b2 == IF n >= i + 1 THEN bytes[i + 1] ELSE 0
                b3 == IF n >= i + 2 THEN bytes[i + 2] ELSE 0
                c1 == B64Alphabet[(b1 \div 4) + 1]
                c2 == B64Alphabet[((b1 % 4) * 16 + (b2 \div 16)) + 1]
                c3 == IF n >= i + 1 THEN B64Alphabet[((b2 % 16) * 4 + (b3 \div 64)) + 1]
                      ELSE Pad
                c4 == IF n >= i + 2 THEN B64Alphabet[(b3 % 64) + 1] ELSE Pad
            IN  <<c1, c2, c3, c4>>
    IN  Concat([g \in 1..((n + 2) \div 3) |-> Group(g)])

\* the value of a base64 character; -1 for a character outside the alphabet
\* (Buffer's decoder also reads "-" and "_" as 62 and 63)
Unbase64(c) ==
    IF c \in 65..90 THEN c - 65
    ELSE IF c \in 97..122 THEN c - 71
    ELSE IF c \in 48..57 THEN c + 4
    ELSE IF c \in {43, 45} THEN 62
    ELSE IF c \in {47, 95} THEN 63
    ELSE -1

\* the decoder's reading of its input: it stops at the first "=", and skips
\* every other character outside the alphabet
Sextets(s) ==
    LET pads == {i \in 1..Len(s) : s[i] = Pad}
        stop == IF pads = {} THEN Len(s) + 1 ELSE CHOOSE i \in pads : \A k \in pads : i <= k
        read == SelectSeq(SubSeq(s, 1, stop - 1), LAMBDA c : Unbase64(c) >= 0)
    IN  [i \in 1..Len(read) |-> Unbase64(read[i])]

\* four sextets to three bytes; a last group of two gives one byte, of three
\* two bytes, and a lone last sextet none
SextetsToBytes(q) ==
    LET n == Len(q)
        Group(g) ==
            LET i == 4 * g - 3
                m == n - i + 1
                y1 == q[i] * 4 + (q[i + 1] \div 16)
                y2 == IF m >= 3 THEN (q[i + 1] % 16) * 16 + (q[i + 2] \div 4) ELSE 0
                y3 == IF m >= 4 THEN (q[i + 2] % 4) * 64 + q[i + 3] ELSE 0
            IN  IF m < 2 THEN <<>>
                ELSE IF m = 2 THEN <<y1>>
                ELSE IF m = 3 THEN <<y1, y2>>
                ELSE <<y1, y2, y3>>
    IN  Concat([g \in 1..((n + 3) \div 4) |-> Group(g)])

\* Buffer.from(str, 'base64'): never throws
Base64Decode(s) == SextetsToBytes(Sextets(s))

\* str.replace(/x/g, y), x one character and y one character or none
ReplaceAll(s, x, y) ==
    IF y = <<>> THEN SelectSeq(s, LAMBDA c : c # x)
    ELSE [i \in 1..Len(s) |-> IF s[i] = x THEN y[1] ELSE s[i]]

\* lines 22-25: base64, "+" to "-", "/" to "_", "=" removed
ToBase64Url(s) ==
    ReplaceAll(ReplaceAll(ReplaceAll(Base64Encode(Utf8Encode(s)), 43, <<45>>), 47, <<95>>),
               Pad, <<>>)

\* lines 31-34: "-" to "+", "_" to "/", base64-decoded, read as UTF-8
FromBase64Url(token) ==
    Utf8Decode(Base64Decode(ReplaceAll(ReplaceAll(token, 45, <<43>>), 95, <<47>>)))

\* generateToken(url) at time t (lines 12-26)
generateToken(url, t) ==
    LET timestamp == Bucket(t)
        data == url \o Colon \o ToDecimal(timestamp)
    IN  ToBase64Url(XorKey(data))

\* the payload verifyToken recovers from a token (lines 30-39)
TokenPayload(token) == XorKey(FromBase64Url(token))

\* the window check with the age comparison left out: any numeric bucket passes
WithinWindowNoExpiry(currentTime, parsed) == ~parsed.nan

\* Math.abs(currentTime - parseInt(tokenTime)) <= 5; false on NaN
TokenWindow == 5
Abs(x) == IF x < 0 THEN 0 - x ELSE x
WithinWindow(currentTime, parsed) ==
    ~parsed.nan /\ Abs(currentTime - parsed.val) <= TokenWindow

\* verifyToken(token, url) at time t (lines 28-49): the destructuring of line 41
\* takes the first two parts of the split on ":", whatever follows them
verifyToken(token, url, t) ==
    LET original == TokenPayload(token)
        parts == Split(original, 58)
        tokenUrl == parts[1]
        tokenTime == IF Len(parts) >= 2 THEN parts[2] ELSE Undefined
        currentTime == Bucket(t)
    IN  tokenUrl = url /\ WithinWindow(currentTime, parseInt(tokenTime))

----------------------------------------------------------------------------
(* The client-side token codec (src/lib/urlEncryption.ts, in the revisions *)
(* unnamed/part_002 and unnamed/part_007)                                  *)

\* the result of a client-side generateToken: a token, or an exception
\* that leaves the function
Issued(token) == [ok |-> TRUE, token |-> token]
IssueThrown == [ok |-> FALSE, token |-> <<>>]

\* .replace(/\+/g, '-').replace(/\//g, '_').replace(/=/g, '')
UrlSafe(b64) == ReplaceAll(ReplaceAll(ReplaceAll(b64, 43, <<45>>), 47, <<95>>), Pad, <<>>)

\* btoa(binaryString): one byte per character; throws InvalidCharacterError
\* on a character above 255
btoa(binaryString) ==
    IF \E i \in 1..Len(binaryString) : binaryString[i] > 255 THEN IssueThrown
    ELSE Issued(Base64Encode(binaryString))

\* the token of a btoa result
tokenOf(encoded) == IF encoded.ok THEN Issued(UrlSafe(encoded.token)) ELSE IssueThrown

\* unnamed/part_002, lines 6-23: the characters of the payload are XORed
\* with the characters of the key and the result is given to btoa
generateTokenBtoa(url, t) == tokenOf(btoa(XorKey(url \o Colon \o ToDecimal(Bucket(t)))))

\* unnamed/part_007, lines 24-28: the bytes of the payload are XORed with the
\* bytes of the key
XorBytes(dataBytes, keyBytes) ==
    [i \in 1..Len(dataBytes) |->
        BitXor(dataBytes[i], keyBytes[((i - 1) % Len(keyBytes)) + 1])]

\* unnamed/part_007, lines 9-49: TextEncoder gives the UTF-8 bytes of the
\* payload and of the key; the XORed bytes are given to btoa one character
\* per byte
generateTokenBytes(url, t) ==
    tokenOf(btoa(XorBytes(Utf8Encode(url \o Colon \o ToDecimal(Bucket(t))),
                          Utf8Encode(TokenKey))))

\* generateToken(url) of a client revision at time t
generateTokenOf(rev, url, t) ==
    IF rev = "part_002" THEN generateTokenBtoa(url, t) ELSE generateTokenBytes(url, t)

----------------------------------------------------------------------------
(* URLs: the WHATWG URL class and the URI functions, on the http(s) URLs   *)
(* of this model (no credentials, no dot segments, no default ports, no    *)
(* upper-case host)                                                        *)

\* "0123456789ABCDEF"
HexDigits == <<48, 49, 50, 51, 52, 53, 54, 55, 56, 57, 65, 66, 67, 68, 69, 70>>

\* A-Z a-z 0-9 - _ . ! ~ * ' ( ), which encodeURIComponent leaves alone
Unreserved == (65..90) \cup (97..122) \cup (48..57) \cup {45, 95, 46, 33, 126, 42, 39, 40, 41}

\* encodeURIComponent on ASCII: every other character becomes %XX
encodeURIComponent(s) ==
    Concat([i \in 1..Len(s) |->
              IF s[i] \in Unreserved THEN <<s[i]>>
              ELSE <<37, HexDigits[(s[i] \div 16) + 1], HexDigits[(s[i] % 16) + 1]>>])

\* the value of a hexadecimal digit; -1 for any other character
HexValue(c) ==
    IF c \in 48..57 THEN c - 48
    ELSE IF c \in 65..70 THEN c - 55
    ELSE IF c \in 97..102 THEN c - 87
    ELSE -1

\* whether "%" at position i of s starts a well-formed escape
EscapeAt(s, i) == i + 2 <= Len(s) /\ HexValue(s[i + 1]) >= 0 /\ HexValue(s[i + 2]) >= 0

\* percent-decoding; with `strict` a malformed escape fails (URIError: the
\* result is Undefined), without it the "%" is kept and "+" reads as a space,
\* as URLSearchParams does. An escape covers three characters, the last two
\* of which are hexadecimal digits and so never start another escape
PercentDecode(s, strict) ==
    LET Escape(i) == s[i] = 37 /\ EscapeAt(s, i)
        Covered(i) == (i > 1 /\ Escape(i - 1)) \/ (i > 2 /\ Escape(i - 2))
        decoded == [i \in 1..Len(s) |->
                      IF Escape(i) THEN 16 * HexValue(s[i + 1]) + HexValue(s[i + 2])
                      ELSE IF Covered(i) THEN -1
                      ELSE IF s[i] = 43 /\ ~strict THEN 32
                      ELSE s[i]]
    IN  IF strict /\ (\E i \in 1..Len(s) : s[i] = 37 /\ ~EscapeAt(s, i)) THEN Undefined
        ELSE SelectSeq(decoded, LAMBDA c : c # -1)

\* decodeURIComponent on ASCII escapes: throws (Undefined) on a malformed escape
decodeURIComponent(s) == PercentDecode(s, TRUE)

Http == <<104, 116, 116, 112, 58>>          \* "http:"
Https == <<104, 116, 116, 112, 115, 58>>    \* "https:"

\* the first position of s, from i on, holding one of the characters cs;
\* Len(s) + 1 when none
FirstOf(s, cs, i) ==
    LET hits == {j \in i..Len(s) : s[j] \in cs}
    IN  IF hits = {} THEN Len(s) + 1 ELSE CHOOSE j \in hits : \A k \in hits : j <= k

InvalidUrl == [ok |-> FALSE]

\* new URL(s): protocol, host, pathname, search (after "?") and hash (after "#")
\* of an http(s) URL; anything else is a TypeError (InvalidUrl): a string with
\* no scheme, an empty host. Only the http and https schemes occur in the model.
ParseUrl(s) ==
    LET protocol == IF StartsWith(s, Https \o <<47, 47>>) THEN Https
                    ELSE IF StartsWith(s, Http \o <<47, 47>>) THEN Http
                    ELSE <<>>
        rest == SubSeq(s, Len(protocol) + 3, Len(s))
        hostEnd == FirstOf(rest, {47, 63, 35}, 1)
        host == SubSeq(rest, 1, hostEnd - 1)
        afterHost == SubSeq(rest, hostEnd, Len(rest))
        pathEnd == FirstOf(afterHost, {63, 35}, 1)
        path == SubSeq(afterHost, 1, pathEnd - 1)
        afterPath == SubSeq(afterHost, pathEnd, Len(afterHost))
        hashAt == FirstOf(afterPath, {35}, 1)
        query == SubSeq(afterPath, 1, hashAt - 1)
    IN  IF s = Undefined \/ protocol = <<>> \/ host = <<>> THEN InvalidUrl
        ELSE [ok |-> TRUE,
              protocol |-> protocol,
              host |-> host,
              pathname |-> IF path = <<>> THEN Slash ELSE path,
              search |-> IF query = <<>> THEN <<>> ELSE Tail(query),
              hash |-> SubSeq(afterPath, hashAt + 1, Len(afterPath))]

\* url.origin
UrlOrigin(u) == u.protocol \o <<47, 47>> \o u.host

\* url.toString()
UrlToString(u) ==
    UrlOrigin(u) \o u.pathname
        \o (IF u.search = <<>> THEN <<>> ELSE Question \o u.search)
        \o (IF u.hash = <<>> THEN <<>> ELSE <<35>> \o u.hash)

\* the name=value pairs of a query string
QueryPairs(search) ==
    IF search = <<>> THEN <<>>
    ELSE LET parts == Split(search, 38)
         IN  [i \in 1..Len(parts) |->
                LET eq == IndexOf(parts[i], <<61>>)
                IN  IF eq = 0 THEN [name |-> parts[i], value |-> <<>>]
                    ELSE [name |-> SubSeq(parts[i], 1, eq - 1),
                          value |-> SubSeq(parts[i], eq + 1, Len(parts[i]))]]

\* url.searchParams.get(name): the decoded value of the first pair of that
\* name, null (Undefined) when there is none
SearchParamsGet(search, name) ==
    LET pairs == SelectSeq(QueryPairs(search), LAMBDA q : PercentDecode(q.name, FALSE) = name)
    IN  IF pairs = <<>> THEN Undefined ELSE PercentDecode(pairs[1].value, FALSE)

\* the application/x-www-form-urlencoded serializer that writes the pairs of
\* a URLSearchParams back into the URL: letters, digits, "*", "-", "." and
\* "_" are kept, a space becomes "+", every other byte becomes %XX
FormEncode(s) ==
    Concat([i \in 1..Len(s) |->
              IF s[i] \in (65..90) \cup (97..122) \cup (48..57) \cup {42, 45, 46, 95}
              THEN <<s[i]>>
              ELSE IF s[i] = 32 THEN <<43>>
              ELSE <<37, HexDigits[(s[i] \div 16) + 1], HexDigits[(s[i] % 16) + 1]>>])

\* url.searchParams.delete(name): the pairs of that name are removed and the
\* pairs that are left are written back through the serializer, each as
\* name=value
SearchParamsDelete(search, name) ==
    LET kept == SelectSeq(QueryPairs(search), LAMBDA q : PercentDecode(q.name, FALSE) # name)
    IN  Join([i \in 1..Len(kept) |->
                FormEncode(PercentDecode(kept[i].name, FALSE)) \o <<61>>
                    \o FormEncode(PercentDecode(kept[i].value, FALSE))],
             Ampersand)

----------------------------------------------------------------------------
(* URL resolution: the three resolvers of the repository                   *)

HttpSlashes == Http \o <<47, 47>>      \* "http://"
HttpsSlashes == Https \o <<47, 47>>    \* "https://"

\* baseUrl.pathname.substring(0, baseUrl.pathname.lastIndexOf('/') + 1)
BasePath(baseUrl) == SubSeq(baseUrl.pathname, 1, LastIndexOf(baseUrl.pathname, Slash))

\* the resolution the token-gated handler applies to a playlist line
\* (api/m3u8-proxy.ts, lines 174-182): three cases
resolveLine(line, baseUrl) ==
    IF StartsWith(line, HttpSlashes) \/ StartsWith(line, HttpsSlashes) THEN line
    ELSE IF StartsWith(line, Slash) THEN baseUrl.protocol \o <<47, 47>> \o baseUrl.host \o line
    ELSE baseUrl.protocol \o <<47, 47>> \o baseUrl.host \o BasePath(baseUrl) \o line

\* resolveUrl(target, baseUrl, basePath) (api/m3u8-proxy.ts, lines 623-641)
resolveUrl(target, baseUrl, basePath) ==
    IF StartsWith(target, HttpSlashes) \/ StartsWith(target, HttpsSlashes) THEN target
    ELSE IF StartsWith(target, <<47, 47>>) THEN baseUrl.protocol \o target
    ELSE IF StartsWith(target, Slash) THEN baseUrl.protocol \o <<47, 47>> \o baseUrl.host \o target
    ELSE baseUrl.protocol \o <<47, 47>> \o baseUrl.host \o basePath \o target

\* makeAbsoluteUrl(url, baseOrigin, basePath) (another revision of the proxy):
\* a protocol-relative reference always gets "https:"
makeAbsoluteUrl(url, baseOrigin, basePath) ==
    IF StartsWith(url, HttpSlashes) \/ StartsWith(url, HttpsSlashes) THEN url
    ELSE IF StartsWith(url, <<47, 47>>) THEN Https \o url
    ELSE IF StartsWith(url, Slash) THEN baseOrigin \o url
    ELSE baseOrigin \o basePath \o url

----------------------------------------------------------------------------
(* The playlist rewrite of the token-gated handler (lines 160-197) and of  *)
(* the origin-gated handler (lines 532-559)                                *)

LF == 10

\* '?url='
UrlEq ==
    <<63, 117, 114, 108, 61>>

\* '&token='
TokenEq ==
    <<38, 116, 111, 107, 101, 110, 61>>

\* '__referer='
RefererEq ==
    <<95, 95, 114, 101, 102, 101, 114, 101, 114, 61>>

\* 'URI="'
UriQuote ==
    <<85, 82, 73, 61, 34>>

\* '#EXT'
ExtPrefix ==
    <<35, 69, 88, 84>>

Hash == <<35>>     \* "#"
Quote == <<34>>    \* the double quote

\* a value that JavaScript reads as true in a condition: a non-empty string
Truthy(s) == s # Undefined /\ s # <<>>

\* lines 184-187: the referer annotation is appended to the resolved URL
withReferer(absoluteUrl, refererParam) ==
    IF Truthy(refererParam)
    THEN absoluteUrl \o (IF Includes(absoluteUrl, Question) THEN Ampersand ELSE Question)
            \o RefererEq \o encodeURIComponent(refererParam)
    ELSE absoluteUrl

\* lines 165-194, one pass of the loop: what is pushed for lines[i].
\* self is url.origin + url.pathname of the request being handled
tokenGatedLine(rawLine, baseUrl, refererParam, self, t) ==
    LET line == Trim(rawLine)
    IN  IF line = <<>> \/ StartsWith(line, Hash) THEN line
        ELSE LET absoluteUrl == withReferer(resolveLine(line, baseUrl), refererParam)
                 segmentToken == generateToken(absoluteUrl, t)
             IN  self \o UrlEq \o encodeURIComponent(absoluteUrl) \o TokenEq \o segmentToken

\* the rewrite with the blank lines filtered out before the loop
rewriteSkippingBlank(text, baseUrl, refererParam, self, t) ==
    LET lines == SelectSeq(Split(text, LF), LAMBDA l : Trim(l) # <<>>)
    IN  Join([i \in 1..Len(lines) |-> tokenGatedLine(lines[i], baseUrl, refererParam, self, t)],
             <<LF>>)

\* lines 161-197: text.split('\n'), one output line per input line, join('\n')
rewriteTokenGated(text, baseUrl, refererParam, self, t) ==
    LET lines == Split(text, LF)
    IN  Join([i \in 1..Len(lines) |-> tokenGatedLine(lines[i], baseUrl, refererParam, self, t)],
             <<LF>>)

RECURSIVE replaceUris(_, _, _, _)
\* trimmedLine.replace(/URI="([^"]+)"/g, ...) of lines 543-547: every URI="x"
\* with a non-empty x becomes URI="<self>?url=<encoded resolveUrl(x)>"
replaceUris(s, baseUrl, basePath, self) ==
    IF s = <<>> THEN <<>>
    ELSE LET close == IF StartsWith(s, UriQuote) THEN IndexFrom(s, Quote, Len(UriQuote) + 1) ELSE 0
         IN  IF close > Len(UriQuote) + 1
             THEN LET uri == SubSeq(s, Len(UriQuote) + 1, close - 1)
                      absoluteUrl == resolveUrl(uri, baseUrl, basePath)
                      proxiedUrl == self \o UrlEq \o encodeURIComponent(absoluteUrl)
                  IN  UriQuote \o proxiedUrl \o Quote
                        \o replaceUris(SubSeq(s, close + 1, Len(s)), baseUrl, basePath, self)
             ELSE <<Head(s)>> \o replaceUris(Tail(s), baseUrl, basePath, self)

\* the line function without the test of line 553: every line that is not an
\* #EXT tag is proxied, comments included
originGatedLineExtOnly(line, baseUrl, basePath, self) ==
    LET trimmedLine == Trim(line)
    IN  IF trimmedLine = <<>> \/ StartsWith(trimmedLine, ExtPrefix)
        THEN IF Includes(trimmedLine, UriQuote)
             THEN replaceUris(trimmedLine, baseUrl, basePath, self)
             ELSE trimmedLine
        ELSE self \o UrlEq \o encodeURIComponent(resolveUrl(trimmedLine, baseUrl, basePath))

\* lines 536-558, the function mapped over the lines
originGatedLine(line, baseUrl, basePath, self) ==
    LET trimmedLine == Trim(line)
    IN  IF trimmedLine = <<>> \/ StartsWith(trimmedLine, ExtPrefix)
        THEN IF Includes(trimmedLine, UriQuote)
             THEN replaceUris(trimmedLine, baseUrl, basePath, self)
             ELSE trimmedLine
        ELSE IF ~StartsWith(trimmedLine, Hash)
             THEN self \o UrlEq \o encodeURIComponent(resolveUrl(trimmedLine, baseUrl, basePath))
             ELSE trimmedLine

\* lines 532-559: text.split('\n').map(...).join('\n')
rewriteOriginGated(text, baseUrl, self) ==
    LET lines == Split(text, LF)
        basePath == BasePath(baseUrl)
    IN  Join([i \in 1..Len(lines) |-> originGatedLine(lines[i], baseUrl, basePath, self)],
             <<LF>>)

----------------------------------------------------------------------------
(* The token-gated handler (api/m3u8-proxy.ts, lines 51-241)               *)

\* 'https://imshep.vercel.app'
DefaultOrigin ==
    <<104, 116, 116, 112, 115, 58, 47, 47, 105, 109, 115, 104, 101, 112, 46,
    118, 101, 114, 99, 101, 108, 46, 97, 112, 112>>

\* process.env.ALLOWED_ORIGINS split on ",", or the default list
ALLOWED_ORIGINS == <<DefaultOrigin>>

\* 'application/json'
ApplicationJson ==
    <<97, 112, 112, 108, 105, 99, 97, 116, 105, 111, 110, 47, 106, 115, 111,
    110>>

\* 'application/vnd.apple.mpegurl'
MpegUrlType ==
    <<97, 112, 112, 108, 105, 99, 97, 116, 105, 111, 110, 47, 118, 110, 100,
    46, 97, 112, 112, 108, 101, 46, 109, 112, 101, 103, 117, 114, 108>>

\* 'mpegurl'
StrMpegurl ==
    <<109, 112, 101, 103, 117, 114, 108>>

\* 'm3u'
StrM3u ==
    <<109, 51, 117>>

\* '.m3u8'
M3u8Ext ==
    <<46, 109, 51, 117, 56>>

\* '__referer'
RefererName ==
    <<95, 95, 114, 101, 102, 101, 114, 101, 114>>
\* CORS headers that echo whatever origin the request names
getCorsHeadersEcho(origin) ==
    [AccessControlAllowOrigin |-> IF Truthy(origin) THEN origin ELSE ALLOWED_ORIGINS[1],
     AccessControlAllowMethods |-> "GET, OPTIONS",
     AccessControlAllowHeaders |-> "Content-Type, Range",
     AccessControlMaxAge |-> "86400",
     AccessControlExposeHeaders |-> "Content-Length, Content-Type, Content-Range"]

\* getCorsHeaders(origin) (lines 51-61)
getCorsHeaders(origin) ==
    LET allowedOrigin ==
            IF Truthy(origin) /\ (\E i \in 1..Len(ALLOWED_ORIGINS) : ALLOWED_ORIGINS[i] = origin)
            THEN origin
            ELSE ALLOWED_ORIGINS[1]
    IN  [AccessControlAllowOrigin |-> allowedOrigin,
         AccessControlAllowMethods |-> "GET, OPTIONS",
         AccessControlAllowHeaders |-> "Content-Type, Range",
         AccessControlMaxAge |-> "86400",
         AccessControlExposeHeaders |-> "Content-Length, Content-Type, Content-Range"]

\* { 'Content-Type': 'application/json', ...getCorsHeaders(origin) }
JsonHeaders(origin) == [ContentType |-> ApplicationJson] @@ getCorsHeaders(origin)

\* new Response(JSON.stringify(fields), { status, headers })
JsonResponse(status, fields, origin) ==
    [status |-> status, headers |-> JsonHeaders(origin), body |-> [kind |-> "json", json |-> fields]]

\* what a handler call comes to: its response and the upstream fetches it made
Outcome(response, fetches) == [response |-> response, fetches |-> fetches]

\* the upstream is not consulted
NoUpstream == [kind |-> "unused"]

\* response.ok
StatusOk(status) == status \in 200..299
\* the headers of the upstream fetch without the Range header of the request
buildFetchHeadersNoRange(referer, refererOrigin, range) ==
    LET base == [UserAgent |-> "Mozilla/5.0 (Windows NT 10.0; Win64; x64) AppleWebKit/537.36",
                 Referer |-> referer]
    IN  IF refererOrigin # Undefined THEN base @@ [Origin |-> refererOrigin] ELSE base

\* lines 107-124: the headers of the upstream fetch. referer is the Referer
\* value, refererOrigin the Origin value (Undefined when none is set), range
\* the Range header of the request ("" when absent)
buildFetchHeaders(referer, refererOrigin, range) ==
    LET base == [UserAgent |-> "Mozilla/5.0 (Windows NT 10.0; Win64; x64) AppleWebKit/537.36",
                 Referer |-> referer]
        withOrigin == IF refererOrigin # Undefined THEN base @@ [Origin |-> refererOrigin]
                      ELSE base
    IN  IF range # "" THEN withOrigin @@ [Range |-> range] ELSE withOrigin

\* the try block reached fetch: what it fetches, and the referer annotation
Planned(refererParam, fetchHeaders, cleanTargetUrl) ==
    [thrown |-> "", refererParam |-> refererParam, fetchHeaders |-> fetchHeaders,
     cleanTargetUrl |-> cleanTargetUrl]

\* the try block threw before fetch
Thrown(message) == [thrown |-> message]

\* lines 112-115 and 126: the target carries a referer annotation
planWithReferer(request, targetUrlObj, refererParam, referer, refererUrl) ==
    IF referer = Undefined THEN Thrown("URI malformed")
    ELSE IF ~refererUrl.ok THEN Thrown("Invalid URL")
    ELSE Planned(refererParam,
                 buildFetchHeaders(referer, UrlOrigin(refererUrl), request.range),
                 UrlToString([targetUrlObj EXCEPT
                                  !.search = SearchParamsDelete(@, RefererName)]))

\* lines 104-126, once new URL(targetUrl) succeeded
planFor(request, targetUrlObj, refererParam) ==
    IF Truthy(refererParam)
    THEN planWithReferer(request, targetUrlObj, refererParam,
                         decodeURIComponent(refererParam), ParseUrl(refererParam))
    ELSE Planned(refererParam,
                 buildFetchHeaders(UrlOrigin(targetUrlObj), Undefined, request.range),
                 request.url)

\* line 103 onwards
planParsed(request, targetUrlObj) ==
    IF ~targetUrlObj.ok THEN Thrown("Invalid URL")
    ELSE planFor(request, targetUrlObj, SearchParamsGet(targetUrlObj.search, RefererName))

\* lines 101-126: the referer annotation, the fetch headers and the clean target
\* URL; thrown is the exception of the try block, if one is thrown before fetch
fetchPlan(request) == planParsed(request, ParseUrl(request.url))

\* line 156: the response is handled as a playlist
isPlaylist(contentType, targetUrl) ==
    \/ Includes(contentType, StrMpegurl)
    \/ Includes(contentType, StrM3u)
    \/ Includes(targetUrl, M3u8Ext)

\* lines 208-226: the upstream status and the headers that are present are
\* copied, the CORS headers and the cache policy added
passThroughHeaders(up, cors) ==
    LET h1 == IF up.contentType # <<>> THEN [ContentType |-> up.contentType] @@ cors ELSE cors
        h2 == IF up.contentLength # "" THEN [ContentLength |-> up.contentLength] @@ h1 ELSE h1
        h3 == IF up.contentRange # "" THEN [ContentRange |-> up.contentRange] @@ h2 ELSE h2
        h4 == IF up.acceptRanges # "" THEN [AcceptRanges |-> up.acceptRanges] @@ h3 ELSE h3
    IN  [CacheControl |-> "public, max-age=3600, immutable"] @@ h4

\* lines 208-226: the upstream response is passed through
passThrough(up, origin) ==
    [status |-> up.status,
     headers |-> passThroughHeaders(up, getCorsHeaders(origin)),
     body |-> [kind |-> "stream", of |-> up.body]]

\* lines 228-240: the catch block
proxyFailed(message, origin) ==
    JsonResponse(500, [error |-> "Proxy failed", details |-> message], origin)

\* lines 139-151: the upstream answered with a status outside 200..299; the
\* error text is `Upstream error: ${response.status}`
upstreamError(status, origin) ==
    JsonResponse(status, [error |-> <<"Upstream error: ", status>>], origin)

\* lines 157-205: the playlist is rewritten against the URL that was fetched
playlistResponse(text, baseUrl, refererParam, self, t, origin) ==
    [status |-> 200,
     headers |-> [ContentType |-> MpegUrlType,
                  CacheControl |-> "public, max-age=10, s-maxage=10"]
                     @@ getCorsHeaders(origin),
     body |-> [kind |-> "text",
               text |-> rewriteTokenGated(text, baseUrl, refererParam, self, t)]]

\* new Response(body, { status }) with a body that is not null: the
\* constructor throws a RangeError for a status outside 200..599 and a
\* TypeError for a null body status; "" when it does not throw
ResponseThrows(status) ==
    IF status \notin 200..599 THEN "init.status must be in the range of 200 to 599"
    ELSE IF status \in {101, 103, 204, 205, 304} THEN "Invalid response status code"
    ELSE ""

\* the response to an upstream answer that passes every upstream status on,
\* with the upstream's headers and body
respondToPassingErrors(up, request, plan, self, t) ==
    IF StatusOk(up.status) /\ isPlaylist(up.contentType, request.url)
    THEN playlistResponse(up.body, ParseUrl(plan.cleanTargetUrl), plan.refererParam,
                          self, t, request.origin)
    ELSE passThrough(up, request.origin)

\* lines 139-226: the response to an upstream that answered. The error
\* response of lines 140-150 is built inside the try block: when its
\* constructor throws, the catch block answers
respondTo(up, request, plan, self, t) ==
    IF ~StatusOk(up.status)
    THEN IF ResponseThrows(up.status) # ""
         THEN proxyFailed(ResponseThrows(up.status), request.origin)
         ELSE upstreamError(up.status, request.origin)
    ELSE IF isPlaylist(up.contentType, request.url)
         THEN playlistResponse(up.body, ParseUrl(plan.cleanTargetUrl), plan.refererParam,
                               self, t, request.origin)
    ELSE passThrough(up, request.origin)

\* lines 128-240, once the fetch is made
afterFetch(request, self, t, up, plan) ==
    Outcome(IF up.kind = "error" THEN proxyFailed("fetch failed", request.origin)
            ELSE IF up.kind = "timeout"
                 THEN proxyFailed("The operation was aborted", request.origin)
            ELSE respondTo(up, request, plan, self, t),
            <<[url |-> plan.cleanTargetUrl, headers |-> plan.fetchHeaders]>>)

\* lines 101-240 for a given plan
runPlan(request, self, t, up, plan) ==
    IF plan.thrown # "" THEN Outcome(proxyFailed(plan.thrown, request.origin), <<>>)
    ELSE afterFetch(request, self, t, up, plan)

\* lines 101-240: the try block, for a request that passed the gate. `up` is
\* what the upstream does when it is fetched: a response (status, headers,
\* body), a network error, or no answer before the 10 s abort
tokenGatedFetch(request, self, t, up) == runPlan(request, self, t, up, fetchPlan(request))

\* the gate testing only that a token is present, not that it verifies
tokenGatePresenceOnly(request, t) ==
    IF request.method = "OPTIONS" THEN "preflight"
    ELSE IF ~Truthy(request.url) THEN "missing-url"
    ELSE IF ~Truthy(request.token) THEN "unauthorized"
    ELSE "pass"
\* the gate testing the method last: an OPTIONS request is answered as a
\* preflight only once its url and token have passed
tokenGatePreflightLast(request, t) ==
    IF ~Truthy(request.url) THEN "missing-url"
    ELSE IF ~Truthy(request.token) \/ ~verifyToken(request.token, request.url, t)
         THEN "unauthorized"
    ELSE IF request.method = "OPTIONS" THEN "preflight"
    ELSE "pass"
\* the gate testing the token before the url parameter
tokenGateBeforeValidation(request, t) ==
    IF request.method = "OPTIONS" THEN "preflight"
    ELSE IF ~Truthy(request.token) \/ ~verifyToken(request.token, request.url, t)
         THEN "unauthorized"
    ELSE IF ~Truthy(request.url) THEN "missing-url"
    ELSE "pass"

\* lines 67-99: how far a request gets before the try block
tokenGate(request, t) ==
    IF request.method = "OPTIONS" THEN "preflight"
    ELSE IF ~Truthy(request.url) THEN "missing-url"
    ELSE IF ~Truthy(request.token) \/ ~verifyToken(request.token, request.url, t)
         THEN "unauthorized"
    ELSE "pass"

\* lines 67-99: the answer of the gate to a request it stops
gateResponse(gate, origin) ==
    IF gate = "preflight"
    THEN [status |-> 204, headers |-> getCorsHeaders(origin), body |-> [kind |-> "null"]]
    ELSE IF gate = "missing-url"
    THEN JsonResponse(400, [error |-> "Missing url parameter"], origin)
    ELSE JsonResponse(401, [error |-> "Invalid or expired token"], origin)

\* lines 63-241 for a given outcome of the gate
handlerAt(gate, request, self, t, up) ==
    IF gate = "pass" THEN tokenGatedFetch(request, self, t, up)
    ELSE Outcome(gateResponse(gate, request.origin), <<>>)

\* handler(request) at time t (lines 63-241). A request is its method, its
\* Origin and Range headers and its url and token query parameters; self is
\* url.origin + url.pathname of the request URL
handler(request, self, t, up) == handlerAt(tokenGate(request, t), request, self, t, up)

----------------------------------------------------------------------------
(* The environment of the handlers: the proxy's own URL and the upstream   *)

\* 'https://p'
SelfOrigin ==
    <<104, 116, 116, 112, 115, 58, 47, 47, 112>>

\* '/m'
SelfPath ==
    <<47, 109>>

\* url.origin + url.pathname of the request the proxy is handling
Self == SelfOrigin \o SelfPath

\* '#EXTM3U\nseg1.ts'
TwoLinePlaylist ==
    <<35, 69, 88, 84, 77, 51, 85, 10, 115, 101, 103, 49, 46, 116, 115>>

\* 'video/mp2t'
VideoType ==
    <<118, 105, 100, 101, 111, 47, 109, 112, 50, 116>>

\* 'text/html'
HtmlType ==
    <<116, 101, 120, 116, 47, 104, 116, 109, 108>>

\* an upstream response that is not a redirect; contentLength, contentRange
\* and acceptRanges are "" when the header is absent, location is the last
\* location of a redirect chain
UpstreamResponse(status, contentType, body) ==
    [kind |-> "response", status |-> status, contentType |-> contentType, body |-> body,
     contentLength |-> "", contentRange |-> "", acceptRanges |-> "",
     location |-> Undefined]

\* what the upstream may do when fetched
Upstreams ==
    {UpstreamResponse(200, MpegUrlType, TwoLinePlaylist),
     UpstreamResponse(200, VideoType, <<0, 1>>),
     UpstreamResponse(404, HtmlType, <<60, 104, 62>>),
     [kind |-> "error"],
     [kind |-> "timeout"]}

----------------------------------------------------------------------------
(* The origin-gated handler (api/m3u8-proxy.ts, lines 421-641) and its two *)
(* sibling revisions (unnamed/part_011, unnamed/part_012). The three share *)
(* one shape; what differs between them is held in a revision record.      *)

\* 'http://localhost:5000'
LocalhostOrigin ==
    <<104, 116, 116, 112, 58, 47, 47, 108, 111, 99, 97, 108, 104, 111, 115,
    116, 58, 53, 48, 48, 48>>

\* '/api/m3u8-proxy'
ApiM3u8Proxy ==
    <<47, 97, 112, 105, 47, 109, 51, 117, 56, 45, 112, 114, 111, 120, 121>>

\* api/m3u8-proxy.ts, lines 421-620: two allowed origins by default, 403 on
\* a foreign origin, no fetch timeout
OriginGated ==
    [name |-> "origin-gated",
     allowed |-> <<DefaultOrigin, LocalhostOrigin>>,
     rejectStatus |-> 403, rejectError |-> "Unauthorized origin",
     headers |-> [UserAgent |-> "Mozilla/5.0 (Windows NT 10.0; Win64; x64) AppleWebKit/537.36",
                  Accept |-> "*/*"],
     refererSuffix |-> Slash, timeoutMs |-> 0,
     upstreamError |-> "Stream unavailable: ", upstreamDetails |-> FALSE,
     playlistCache |-> [CacheControl |-> "no-cache, no-store, must-revalidate"],
     failed |-> "Proxy failed to fetch stream", failedDetails |-> "never",
     nodeEnv |-> "production"]

\* unnamed/part_011, lines 1-198: the single ALLOWED_ORIGIN, 403 on any other
\* origin, no fetch timeout, proxied URLs at <origin>/api/m3u8-proxy
Part011 ==
    [name |-> "part_011",
     allowed |-> <<DefaultOrigin>>,
     rejectStatus |-> 403, rejectError |-> "Unauthorized origin",
     headers |-> [UserAgent |-> "Mozilla/5.0 (Windows NT 10.0; Win64; x64) AppleWebKit/537.36",
                  Accept |-> "*/*"],
     refererSuffix |-> Slash, timeoutMs |-> 0,
     upstreamError |-> "Stream fetch failed: ", upstreamDetails |-> FALSE,
     playlistCache |-> [CacheControl |-> "no-cache"],
     failed |-> "Proxy request failed", failedDetails |-> "always",
     nodeEnv |-> "production"]

\* unnamed/part_012, lines 1-238: one allowed origin by default, 401 on a
\* foreign origin, a 30 s fetch timeout
Part012 ==
    [name |-> "part_012",
     allowed |-> <<DefaultOrigin>>,
     rejectStatus |-> 401, rejectError |-> "Unauthorized",
     headers |-> [UserAgent |-> "Mozilla/5.0 (Windows NT 10.0; Win64; x64) AppleWebKit/537.36 (KHTML, like Gecko) Chrome/120.0.0.0 Safari/537.36",
                  Accept |-> "*/*", AcceptLanguage |-> "en-US,en;q=0.9",
                  AcceptEncoding |-> "identity"],
     refererSuffix |-> <<>>, timeoutMs |-> 30000,
     upstreamError |-> "Failed to fetch stream: ", upstreamDetails |-> TRUE,
     playlistCache |-> [CacheControl |-> "no-cache, no-store, must-revalidate",
                        Pragma |-> "no-cache", Expires |-> "0"],
     failed |-> "Proxy failed", failedDetails |-> "development",
     nodeEnv |-> "production"]

\* unnamed/part_012 run with NODE_ENV=development (line 227)
Part012Development == [Part012 EXCEPT !.nodeEnv = "development"]

\* s.toLowerCase(), on ASCII
ToLowerCase(s) == [i \in 1..Len(s) |-> IF s[i] \in 65..90 THEN s[i] + 32 ELSE s[i]]

\* response.url: fetch follows redirects, so the response comes from the last
\* location, which is the fetched URL when the upstream did not redirect
ResponseUrl(up, fetched) == IF up.location = Undefined THEN fetched ELSE up.location

\* getCorsHeaders(origin) of the origin-gated revisions (lines 430-440)
getCorsHeadersOf(rev, origin) ==
    LET allowedOrigin ==
            IF Truthy(origin) /\ (\E i \in 1..Len(rev.allowed) : rev.allowed[i] = origin)
            THEN origin
            ELSE rev.allowed[1]
    IN  [AccessControlAllowOrigin |-> allowedOrigin,
         AccessControlAllowMethods |-> "GET, OPTIONS",
         AccessControlAllowHeaders |-> "Content-Type, Range",
         AccessControlMaxAge |-> "86400",
         AccessControlExposeHeaders |->
             "Content-Length, Content-Type, Content-Range, Accept-Ranges"]

\* new Response(JSON.stringify(fields), { status, headers: { 'Content-Type':
\* 'application/json', ...cors } })
JsonWith(status, fields, cors) ==
    [status |-> status, headers |-> [ContentType |-> ApplicationJson] @@ cors,
     body |-> [kind |-> "json", json |-> fields]]

\* lines 446-475: how far a request gets before the try block
originGate(rev, request) ==
    IF request.method = "OPTIONS" THEN "preflight"
    ELSE IF ~Truthy(request.origin)
            \/ ~(\E i \in 1..Len(rev.allowed) : rev.allowed[i] = request.origin)
         THEN "rejected"
    ELSE IF ~Truthy(request.url) THEN "missing-url"
    ELSE "pass"

\* lines 446-475: the answer to a request that is stopped before the try block
originGateResponse(rev, gate, cors) ==
    IF gate = "preflight"
    THEN [status |-> 204, headers |-> cors, body |-> [kind |-> "null"]]
    ELSE IF gate = "rejected"
    THEN JsonWith(rev.rejectStatus, [error |-> rev.rejectError], cors)
    ELSE JsonWith(400, [error |-> "Missing url parameter"], cors)

\* lines 479-497: the headers of the upstream fetch; the Range header of the
\* request is forwarded, Referer and Origin are set when targetUrl parses
originGatedFetchHeaders(rev, range, targetUrlObj) ==
    LET withRange == IF range # "" THEN rev.headers @@ [Range |-> range] ELSE rev.headers
    IN  IF targetUrlObj.ok
        THEN withRange @@ [Referer |-> UrlOrigin(targetUrlObj) \o rev.refererSuffix,
                           Origin |-> UrlOrigin(targetUrlObj)]
        ELSE withRange

\* lines 522-527: the response is handled as a playlist. The two sibling
\* revisions test the target URL for '.m3u8' only, and case-sensitively
isPlaylistOf(rev, contentType, targetUrl) ==
    \/ Includes(contentType, StrMpegurl)
    \/ rev.name = "origin-gated" /\ Includes(contentType, <<109, 51, 117, 56>>)
    \/ Includes(contentType, StrM3u)
    \/ Includes(contentType, <<118, 110, 100, 46, 97, 112, 112, 108, 101, 46,
                               109, 112, 101, 103, 117, 114, 108>>)
    \/ IF rev.name = "origin-gated"
       THEN \/ Includes(ToLowerCase(targetUrl), M3u8Ext)
            \/ Includes(ToLowerCase(targetUrl), <<46, 109, 51, 117>>)
       ELSE Includes(targetUrl, M3u8Ext)

RECURSIVE replaceUrisPart011(_, _, _, _)
\* line.replace(/URI="([^"]+)"/g, ...) of unnamed/part_011, lines 121-125
replaceUrisPart011(s, baseOrigin, basePath, proxy) ==
    IF s = <<>> THEN <<>>
    ELSE LET close == IF StartsWith(s, UriQuote) THEN IndexFrom(s, Quote, Len(UriQuote) + 1) ELSE 0
         IN  IF close > Len(UriQuote) + 1
             THEN LET uri == SubSeq(s, Len(UriQuote) + 1, close - 1)
                      absoluteUri == makeAbsoluteUrl(uri, baseOrigin, basePath)
                      proxiedUri == proxy \o UrlEq \o encodeURIComponent(absoluteUri)
                  IN  UriQuote \o proxiedUri \o Quote
                        \o replaceUrisPart011(SubSeq(s, close + 1, Len(s)), baseOrigin,
                                              basePath, proxy)
             ELSE <<Head(s)>> \o replaceUrisPart011(Tail(s), baseOrigin, basePath, proxy)

\* unnamed/part_011, lines 114-135, the function mapped over the lines
part011Line(rawLine, baseOrigin, basePath, proxy) ==
    LET line == Trim(rawLine)
    IN  IF StartsWith(line, Hash)
        THEN IF Includes(line, UriQuote)
             THEN replaceUrisPart011(line, baseOrigin, basePath, proxy)
             ELSE line
        ELSE IF line = <<>> THEN line
        ELSE proxy \o UrlEq \o encodeURIComponent(makeAbsoluteUrl(line, baseOrigin, basePath))

\* unnamed/part_011, lines 109-136: text.split('\n').map(...).join('\n')
rewritePart011(text, baseUrl, proxy) ==
    LET lines == Split(text, LF)
        basePath == BasePath(baseUrl)
        baseOrigin == UrlOrigin(baseUrl)
    IN  Join([i \in 1..Len(lines) |-> part011Line(lines[i], baseOrigin, basePath, proxy)],
             <<LF>>)

\* the rewrite of a revision. selfOrigin is url.origin and selfPath is
\* url.pathname of the request being handled. createProxiedUrl and the loop
\* of unnamed/part_012 (lines 119-163) compute what resolveUrl and the loop of
\* lines 536-559 compute
rewriteOf(rev, text, baseUrl, selfOrigin, selfPath) ==
    IF rev.name = "part_011" THEN rewritePart011(text, baseUrl, selfOrigin \o ApiM3u8Proxy)
    ELSE rewriteOriginGated(text, baseUrl, selfOrigin \o selfPath)

\* lines 561-568: the rewritten playlist is returned
originGatedPlaylist(rev, text, cors) ==
    [status |-> 200,
     headers |-> [ContentType |-> MpegUrlType] @@ rev.playlistCache @@ cors,
     body |-> [kind |-> "text", text |-> text]]

\* lines 572-599: the headers of the pass-through response
originGatedPassHeaders(rev, up, cors) ==
    LET h1 == IF up.contentType # <<>> THEN [ContentType |-> up.contentType] @@ cors ELSE cors
        h2 == IF up.contentLength # "" THEN [ContentLength |-> up.contentLength] @@ h1 ELSE h1
        h3 == IF up.contentRange # "" THEN [ContentRange |-> up.contentRange] @@ h2 ELSE h2
        h4 == IF up.acceptRanges # "" THEN [AcceptRanges |-> up.acceptRanges] @@ h3 ELSE h3
        octet == IF rev.name = "part_012"
                 THEN <<97, 112, 112, 108, 105, 99, 97, 116, 105, 111, 110, 47>> ELSE <<>>
    IN  [CacheControl |->
            IF \/ Includes(up.contentType, <<118, 105, 100, 101, 111>>)
               \/ Includes(up.contentType,
                           octet \o <<111, 99, 116, 101, 116, 45, 115, 116, 114, 101, 97, 109>>)
            THEN "public, max-age=31536000, immutable"
            ELSE "public, max-age=60"] @@ h4

\* an exception as the catch block reads it: error.name and error.message
Exception(name, message) == [name |-> name, message |-> message]

\* the exceptions of the try block: fetch on a string that is not a URL (the
\* message ends with that string), fetch on a network failure, the abort of
\* AbortSignal.timeout, and the constructor of Response
FetchParseError == Exception("TypeError", "Failed to parse URL from ${targetUrl}")
FetchNetworkError == Exception("TypeError", "fetch failed")
FetchTimeoutError == Exception("TimeoutError", "The operation was aborted due to timeout")
ResponseError(status) ==
    Exception(IF status \notin 200..599 THEN "RangeError" ELSE "TypeError",
              ResponseThrows(status))

\* unnamed/part_012, lines 215-221: the error text is chosen by error.name
\* and by whether error.message includes 'fetch'
errorMessageOf(rev, error) ==
    IF rev.failedDetails # "development" THEN rev.failed
    ELSE IF error.name = "AbortError"
         THEN "Request timeout - stream took too long to respond"
    ELSE IF error.message = FetchNetworkError.message
         THEN "Failed to connect to stream server"
    ELSE rev.failed

\* the catch block (lines 606-619; unnamed/part_011, lines 183-197;
\* unnamed/part_012, lines 212-237): error.message is put into the body as
\* 'details' by part_011 always and by part_012 in development
failedOf(rev, error, cors) ==
    JsonWith(500,
             IF \/ rev.failedDetails = "always"
                \/ rev.failedDetails = "development" /\ rev.nodeEnv = "development"
             THEN [error |-> errorMessageOf(rev, error), details |-> error.message]
             ELSE [error |-> errorMessageOf(rev, error)],
             cors)

\* lines 504-604: the response to an upstream that answered; when the
\* constructor of the error response throws, the catch block answers
originGatedRespond(rev, up, request, selfOrigin, selfPath, cors) ==
    IF ~StatusOk(up.status)
    THEN IF ResponseThrows(up.status) # "" THEN failedOf(rev, ResponseError(up.status), cors)
         ELSE JsonWith(up.status,
                       IF rev.upstreamDetails
                       THEN [error |-> <<rev.upstreamError, up.status>>,
                             details |-> "statusText"]
                       ELSE [error |-> <<rev.upstreamError, up.status>>],
                       cors)
    ELSE IF isPlaylistOf(rev, up.contentType, request.url)
         THEN originGatedPlaylist(rev,
                  rewriteOf(rev, up.body, ParseUrl(ResponseUrl(up, request.url)),
                            selfOrigin, selfPath),
                  cors)
    ELSE [status |-> up.status, headers |-> originGatedPassHeaders(rev, up, cors),
          body |-> [kind |-> "stream", of |-> up.body]]

\* lines 477-619: the try block. fetch throws on a URL that does not parse,
\* on a network error and, where the revision sets a timeout, on an upstream
\* that stays silent; the catch block answers 500
originGatedFetch(rev, request, selfOrigin, selfPath, up, targetUrlObj, cors) ==
    IF ~targetUrlObj.ok THEN Outcome(failedOf(rev, FetchParseError, cors), <<>>)
    ELSE Outcome(IF up.kind = "error" THEN failedOf(rev, FetchNetworkError, cors)
                 ELSE IF up.kind = "timeout" THEN failedOf(rev, FetchTimeoutError, cors)
                 ELSE originGatedRespond(rev, up, request, selfOrigin, selfPath, cors),
                 <<[url |-> request.url,
                    headers |-> originGatedFetchHeaders(rev, request.range, targetUrlObj)]>>)

\* the handler for a given outcome of the gate
originGatedAt(rev, gate, request, selfOrigin, selfPath, up, cors) ==
    IF gate = "pass"
    THEN originGatedFetch(rev, request, selfOrigin, selfPath, up, ParseUrl(request.url), cors)
    ELSE Outcome(originGateResponse(rev, gate, cors), <<>>)

\* handler(request) of an origin-gated revision (lines 442-620)
originGatedHandler(rev, request, selfOrigin, selfPath, up) ==
    originGatedAt(rev, originGate(rev, request), request, selfOrigin, selfPath, up,
                  getCorsHeadersOf(rev, request.origin))

----------------------------------------------------------------------------
(* The token codec over time: a client is issued a token, the clock        *)
(* advances, and the token is presented for verification.                  *)

\* the characters the url parameter is drawn from: "9" and ":"
UrlSigma == {57, 58}
MaxUrlLen == 3

\* "http://9", "https://9:9/9": absolute URLs, the second with a port
HttpUrls == {<<104, 116, 116, 112, 58, 47, 47, 57>>,
             <<104, 116, 116, 112, 115, 58, 47, 47, 57, 58, 57, 47, 57>>}

\* the values of the url parameter: absolute URLs, and any short string, since
\* the codec takes every string
Urls == HttpUrls \cup Strings(UrlSigma, 1, MaxUrlLen)

StartBucket == 9
\* the clock is read every half bucket
TickMs == BucketMs \div 2
MaxIdleTicks == 2
MaxAgeTicks == 14

\* the clock advances (to the bounds: while no token is held, and past its issuance)
Tick ==
    /\ \/ held = None /\ now < StartBucket * BucketMs + MaxIdleTicks * TickMs
       \/ held # None /\ now < held.at + MaxAgeTicks * TickMs
    /\ now' = now + TickMs
    /\ last' = None
    /\ UNCHANGED <<held, input, output, urlMappings, peerMappings, tokenCache>>

\* generateToken(u) is called and the client keeps the token
IssueToken ==
    /\ held = None
    /\ \E u \in Urls :
          held' = [kind |-> "issued", url |-> u, token |-> generateToken(u, now),
                   at |-> now]
    /\ last' = None
    /\ UNCHANGED <<now, input, output, urlMappings, peerMappings, tokenCache>>

\* verifyToken(held token, u) is called
Verify ==
    /\ held # None
    /\ last = None
    /\ \E u \in Urls :
          last' = [kind |-> "verify", url |-> u, ok |-> verifyToken(held.token, u, now)]
    /\ UNCHANGED <<now, held, input, output, urlMappings, peerMappings, tokenCache>>

\* the client replays the request the held token was minted for: a GET of
\* <self>?url=<held.url>&token=<held.token>
Replay ==
    /\ held # None
    /\ last = None
    /\ LET request == [method |-> "GET", origin |-> Undefined, range |-> "",
                       url |-> held.url, token |-> held.token]
       IN  \E up \in (IF tokenGate(request, now) = "pass" THEN Upstreams ELSE {NoUpstream}) :
              last' = [kind |-> "request", request |-> request]
                         @@ handler(request, Self, now, up)
    /\ UNCHANGED <<now, held, input, output, urlMappings, peerMappings, tokenCache>>

\* the caller takes the result of the last operation
Consume ==
    /\ last # None
    /\ last' = None
    /\ UNCHANGED <<now, held, input, output, urlMappings, peerMappings, tokenCache>>

InitToken ==
    /\ now = StartBucket * BucketMs
    /\ held = None
    /\ last = None
    /\ input = None
    /\ output = None
    /\ urlMappings = EmptyMap
    /\ peerMappings = EmptyMap
    /\ tokenCache = EmptyMap

NextToken == Tick \/ IssueToken \/ Verify \/ Replay \/ Consume

SpecToken == InitToken /\ [][NextToken]_vars

----------------------------------------------------------------------------
(* Tokens that generateToken did not produce are presented to verifyToken   *)

\* the URLs a forged token is built around: "9" and "99"
ForgeUrls == {<<57>>, <<57, 57>>}

\* the payloads that are encrypted for url u at time t: the one generateToken
\* builds, u alone (no separator), u with an empty bucket field, with a bucket
\* field of one letter, and with the current bucket followed by a letter
ForgedPayloads(u, t) ==
    {u \o Colon \o ToDecimal(Bucket(t)),
     u,
     u \o Colon,
     u \o Colon \o <<120>>,
     u \o Colon \o ToDecimal(Bucket(t)) \o <<120>>}

\* the tokens presented at time t: the coding (lines 17-25) of each payload,
\* and that coding with "!" put in front, with "A" appended, and with its last
\* character removed
ForgedTokens(t) ==
    LET coded == {ToBase64Url(XorKey(payload)) :
                    payload \in UNION {ForgedPayloads(u, t) : u \in ForgeUrls}}
    IN  coded
          \cup {<<33>> \o k : k \in coded}
          \cup {k \o <<65>> : k \in coded}
          \cup {SubSeq(k, 1, Len(k) - 1) : k \in coded}

\* a client holds a token it built itself
Forge ==
    /\ held = None
    /\ \E k \in ForgedTokens(now) :
          held' = [kind |-> "forged", url |-> Undefined, token |-> k, at |-> now]
    /\ last' = None
    /\ UNCHANGED <<now, input, output, urlMappings, peerMappings, tokenCache>>

NextForge == Forge \/ Verify \/ Consume

SpecForge == InitToken /\ [][NextForge]_vars

----------------------------------------------------------------------------
(* The resolvers applied to references and bases                           *)

\* "s" and "/"
RefSigma == {115, 47}
MaxRefLen == 2

\* "", "/", "//", "http://", "https://"
RefPrefixes == {<<>>, Slash, <<47, 47>>, HttpSlashes, HttpsSlashes}

\* the references, the base and the results of the resolution table of the specification
\* 'seg1.ts'
RefSeg1 ==
    <<115, 101, 103, 49, 46, 116, 115>>

\* '/abs/seg2.ts'
RefSeg2 ==
    <<47, 97, 98, 115, 47, 115, 101, 103, 50, 46, 116, 115>>

\* '//other.cdn.com/seg3.ts'
RefSeg3 ==
    <<47, 47, 111, 116, 104, 101, 114, 46, 99, 100, 110, 46, 99, 111, 109, 47,
    115, 101, 103, 51, 46, 116, 115>>

\* 'https://full.example.com/seg4.ts'
RefSeg4 ==
    <<104, 116, 116, 112, 115, 58, 47, 47, 102, 117, 108, 108, 46, 101, 120,
    97, 109, 112, 108, 101, 46, 99, 111, 109, 47, 115, 101, 103, 52, 46, 116,
    115>>

\* 'https://cdn.example.com/live/chan1/'
TableBase ==
    <<104, 116, 116, 112, 115, 58, 47, 47, 99, 100, 110, 46, 101, 120, 97,
    109, 112, 108, 101, 46, 99, 111, 109, 47, 108, 105, 118, 101, 47, 99, 104,
    97, 110, 49, 47>>

\* 'http://h/a/b.m3u8'
BaseHttp ==
    <<104, 116, 116, 112, 58, 47, 47, 104, 47, 97, 47, 98, 46, 109, 51, 117,
    56>>

\* 'https://h:8/p?q=/x'
BaseHttpsQuery ==
    <<104, 116, 116, 112, 115, 58, 47, 47, 104, 58, 56, 47, 112, 63, 113, 61,
    47, 120>>

\* 'http://h'
BaseNoPath ==
    <<104, 116, 116, 112, 58, 47, 47, 104>>

\* 'https://cdn.example.com/live/chan1/seg1.ts'
ResSeg1 ==
    <<104, 116, 116, 112, 115, 58, 47, 47, 99, 100, 110, 46, 101, 120, 97,
    109, 112, 108, 101, 46, 99, 111, 109, 47, 108, 105, 118, 101, 47, 99, 104,
    97, 110, 49, 47, 115, 101, 103, 49, 46, 116, 115>>

\* 'https://cdn.example.com/abs/seg2.ts'
ResSeg2 ==
    <<104, 116, 116, 112, 115, 58, 47, 47, 99, 100, 110, 46, 101, 120, 97,
    109, 112, 108, 101, 46, 99, 111, 109, 47, 97, 98, 115, 47, 115, 101, 103,
    50, 46, 116, 115>>

\* 'https://other.cdn.com/seg3.ts'
ResSeg3 ==
    <<104, 116, 116, 112, 115, 58, 47, 47, 111, 116, 104, 101, 114, 46, 99,
    100, 110, 46, 99, 111, 109, 47, 115, 101, 103, 51, 46, 116, 115>>

TableRefs == {RefSeg1, RefSeg2, RefSeg3, RefSeg4}

\* a prefix of each of the four kinds and a short tail; the table's references
Refs == {p \o r : p \in RefPrefixes, r \in Strings(RefSigma, 1, MaxRefLen)} \cup TableRefs

Bases == {TableBase, BaseHttp, BaseHttpsQuery, BaseNoPath}

InitResolve ==
    /\ now = 0
    /\ held = None
    /\ last = None
    /\ input \in [ref : Refs, base : Bases]
    /\ output = None
    /\ urlMappings = EmptyMap
    /\ peerMappings = EmptyMap
    /\ tokenCache = EmptyMap

\* the token-gated handler resolves a playlist line against new URL(base)
ApplyResolveLine ==
    /\ output' = [fn |-> "resolveLine",
                  result |-> resolveLine(input.ref, ParseUrl(input.base))]
    /\ UNCHANGED <<now, held, last, input, urlMappings, peerMappings, tokenCache>>

\* the origin-gated handler calls resolveUrl(target, baseUrl, basePath)
ApplyResolveUrl ==
    /\ output' = [fn |-> "resolveUrl",
                  result |-> resolveUrl(input.ref, ParseUrl(input.base),
                                        BasePath(ParseUrl(input.base)))]
    /\ UNCHANGED <<now, held, last, input, urlMappings, peerMappings, tokenCache>>

\* the revision with makeAbsoluteUrl(url, baseUrl.origin, basePath)
ApplyMakeAbsoluteUrl ==
    /\ output' = [fn |-> "makeAbsoluteUrl",
                  result |-> makeAbsoluteUrl(input.ref, UrlOrigin(ParseUrl(input.base)),
                                             BasePath(ParseUrl(input.base)))]
    /\ UNCHANGED <<now, held, last, input, urlMappings, peerMappings, tokenCache>>

NextResolve == ApplyResolveLine \/ ApplyResolveUrl \/ ApplyMakeAbsoluteUrl

SpecResolve == InitResolve /\ [][NextResolve]_vars

----------------------------------------------------------------------------
(* The playlist rewrites applied to playlist texts                         *)

\* the lines playlists are made of: blank, carriage return only, tags with and
\* without a carriage return, a plain comment with a trailing space, tags with a
\* quoted URI, and media lines of each kind of reference
\* ''
LineBlank ==
    <<>>

\* '\r'
LineCr ==
    <<13>>

\* '#EXTM3U'
LineExtM3u ==
    <<35, 69, 88, 84, 77, 51, 85>>

\* '#EXTM3U\r'
LineExtM3uCr ==
    <<35, 69, 88, 84, 77, 51, 85, 13>>

\* '# c '
LineComment ==
    <<35, 32, 99, 32>>

\* '#EXT-X-KEY:URI="k"'
LineKey ==
    <<35, 69, 88, 84, 45, 88, 45, 75, 69, 89, 58, 85, 82, 73, 61, 34, 107,
    34>>

\* '#EXT-X-KEY:URI="//o/k",IV=1'
LineKeyIv ==
    <<35, 69, 88, 84, 45, 88, 45, 75, 69, 89, 58, 85, 82, 73, 61, 34, 47, 47,
    111, 47, 107, 34, 44, 73, 86, 61, 49>>

\* '/s'
LineAbsPath ==
    <<47, 115>>

\* '//o/s'
LineProtoRel ==
    <<47, 47, 111, 47, 115>>

\* 'https://f/s'
LineFull ==
    <<104, 116, 116, 112, 115, 58, 47, 47, 102, 47, 115>>

\* ' s.ts\r'
LineSpaced ==
    <<32, 115, 46, 116, 115, 13>>

LinePool == {LineBlank, LineCr, LineExtM3u, LineExtM3uCr, LineComment, LineKey, LineKeyIv,
             RefSeg1, LineAbsPath, LineProtoRel, LineFull, LineSpaced}

MaxLines == 2

\* the playlist texts: 1..MaxLines lines joined by "\n" (a text ending in "\n"
\* is one whose last line is blank)
Playlists == {Join(ls, <<LF>>) : ls \in UNION {[1..n -> LinePool] : n \in 1..MaxLines}}

\* 'https://origin.test/live/master.m3u8'
MasterUrl ==
    <<104, 116, 116, 112, 115, 58, 47, 47, 111, 114, 105, 103, 105, 110, 46,
    116, 101, 115, 116, 47, 108, 105, 118, 101, 47, 109, 97, 115, 116, 101,
    114, 46, 109, 51, 117, 56>>

\* 'https://origin.test/live/seg1.ts'
MasterSeg1 ==
    <<104, 116, 116, 112, 115, 58, 47, 47, 111, 114, 105, 103, 105, 110, 46,
    116, 101, 115, 116, 47, 108, 105, 118, 101, 47, 115, 101, 103, 49, 46,
    116, 115>>

\* 'http://r/'
RefererUrl ==
    <<104, 116, 116, 112, 58, 47, 47, 114, 47>>

\* the URL the playlist was fetched from and the referer annotation of the request
RewriteContexts == {[base |-> MasterUrl, referer |-> Undefined],
                    [base |-> BaseHttp, referer |-> RefererUrl]}

InitRewrite ==
    /\ now = StartBucket * BucketMs
    /\ held = None
    /\ last = None
    /\ \E text \in Playlists, c \in RewriteContexts :
          input = [text |-> text, base |-> c.base, referer |-> c.referer]
    /\ output = None
    /\ urlMappings = EmptyMap
    /\ peerMappings = EmptyMap
    /\ tokenCache = EmptyMap

\* the token-gated handler rewrites the playlist it fetched from input.base
ApplyRewriteTokenGated ==
    /\ output' = [fn |-> "tokenGated",
                  text |-> rewriteTokenGated(input.text, ParseUrl(input.base),
                                             input.referer, Self, now)]
    /\ UNCHANGED <<now, held, last, input, urlMappings, peerMappings, tokenCache>>

\* the origin-gated handler rewrites the playlist answered from input.base
ApplyRewriteOriginGated ==
    /\ output' = [fn |-> "originGated",
                  text |-> rewriteOriginGated(input.text, ParseUrl(input.base), Self)]
    /\ UNCHANGED <<now, held, last, input, urlMappings, peerMappings, tokenCache>>

NextRewrite == ApplyRewriteTokenGated \/ ApplyRewriteOriginGated

SpecRewrite == InitRewrite /\ [][NextRewrite]_vars

----------------------------------------------------------------------------
(* Requests to the token-gated handler                                     *)

\* 'http://evil'
OtherOrigin ==
    <<104, 116, 116, 112, 58, 47, 47, 101, 118, 105, 108>>

\* the Origin header: absent, the allowed origin, another origin
RequestOrigins == {Undefined, DefaultOrigin, OtherOrigin}

\* the url parameter: absent, empty, or a value
RequestUrls == {Undefined, <<>>} \cup Urls

\* the token parameter at time t: absent, empty, or a token minted for some URL
\* in the current bucket or TokenWindow + 1 buckets ago
RequestTokens(t) ==
    {Undefined, <<>>} \cup
    {generateToken(u, t0) : u \in Urls, t0 \in {t, t - (TokenWindow + 1) * BucketMs}}

MaxClockTicks == 1

\* the clock advances
ClockTick ==
    /\ now < StartBucket * BucketMs + MaxClockTicks * TickMs
    /\ now' = now + TickMs
    /\ last' = None
    /\ UNCHANGED <<held, input, output, urlMappings, peerMappings, tokenCache>>

\* a request arrives at the token-gated handler and is answered
Request ==
    /\ last = None
    /\ \E method \in {"GET", "OPTIONS"}, origin \in RequestOrigins,
          url \in RequestUrls, token \in RequestTokens(now) :
          LET request == [method |-> method, origin |-> origin, range |-> "",
                          url |-> url, token |-> token]
          IN  \E up \in (IF tokenGate(request, now) = "pass" THEN Upstreams ELSE {NoUpstream}) :
                 last' = [kind |-> "request", request |-> request]
                            @@ handler(request, Self, now, up)
    /\ UNCHANGED <<now, held, input, output, urlMappings, peerMappings, tokenCache>>

Init ==
    /\ now = StartBucket * BucketMs
    /\ held = None
    /\ last = None
    /\ input = None
    /\ output = None
    /\ urlMappings = EmptyMap
    /\ peerMappings = EmptyMap
    /\ tokenCache = EmptyMap

Next == ClockTick \/ Request \/ Consume

Spec == Init /\ [][Next]_vars

----------------------------------------------------------------------------
(* Requests that reach the upstream: the try block of the token-gated      *)
(* handler for a request its gate admitted, and the origin-gated handlers  *)

\* 'http://o/a/m.m3u8': a playlist
PlaylistUrl ==
    <<104, 116, 116, 112, 58, 47, 47, 111, 47, 97, 47, 109, 46, 109, 51, 117, 56>>

\* 'http://c/v/m.m3u8': where the upstream redirects a playlist request to
RedirectUrl ==
    <<104, 116, 116, 112, 58, 47, 47, 99, 47, 118, 47, 109, 46, 109, 51, 117, 56>>

\* 'http://o/a/s.ts': a segment
SegmentUrl ==
    <<104, 116, 116, 112, 58, 47, 47, 111, 47, 97, 47, 115, 46, 116, 115>>

\* 'http://o/a/M.M3U': a playlist by its upper-case extension
UpperCaseUrl ==
    <<104, 116, 116, 112, 58, 47, 47, 111, 47, 97, 47, 77, 46, 77, 51, 85>>

\* the referer annotations: 'http://r/', 'http://r/%41', 'http://r/%'
Referers ==
    {<<104, 116, 116, 112, 58, 47, 47, 114, 47>>,
     <<104, 116, 116, 112, 58, 47, 47, 114, 47, 37, 52, 49>>,
     <<104, 116, 116, 112, 58, 47, 47, 114, 47, 37>>}

\* 'http://o/m.m3u8/s.ts': a segment below a directory named after a playlist
DirectorySegmentUrl ==
    <<104, 116, 116, 112, 58, 47, 47, 111, 47, 109, 46, 109, 51, 117, 56, 47,
      115, 46, 116, 115>>

\* 'http://o/a/s.ts?k=a%20b': a segment with a query parameter of its own
QuerySegmentUrl ==
    <<104, 116, 116, 112, 58, 47, 47, 111, 47, 97, 47, 115, 46, 116, 115,
      63, 107, 61, 97, 37, 50, 48, 98>>

\* 'http://r/m.m3u8': a referer that is itself a playlist URL
PlaylistReferer ==
    <<104, 116, 116, 112, 58, 47, 47, 114, 47, 109, 46, 109, 51, 117, 56>>

\* the target URLs: a playlist and a segment, bare or annotated with a
\* referer, a segment whose path or referer names a playlist, and a string
\* that is not a URL
FetchUrls ==
    {PlaylistUrl, SegmentUrl, UpperCaseUrl, <<57>>,
     DirectorySegmentUrl, withReferer(SegmentUrl, PlaylistReferer),
     QuerySegmentUrl, withReferer(QuerySegmentUrl, RefererUrl)}
        \cup {withReferer(u, r) : u \in {PlaylistUrl, SegmentUrl}, r \in Referers}

\* the Range header of the request: absent, or a byte range
Ranges == {"", "bytes=0-1"}

\* what the upstream may do when fetched: also redirect a playlist request,
\* answer a byte range, fail
FetchUpstreams ==
    Upstreams \cup
    {[UpstreamResponse(200, MpegUrlType, TwoLinePlaylist) EXCEPT !.location = RedirectUrl],
     [UpstreamResponse(200, HtmlType, TwoLinePlaylist) EXCEPT !.location = RedirectUrl],
     [UpstreamResponse(206, VideoType, <<0, 1>>) EXCEPT
         !.contentRange = "bytes 0-1/9", !.contentLength = "2", !.acceptRanges = "bytes"],
     [UpstreamResponse(206, VideoType, <<0, 1>>) EXCEPT !.contentRange = "bytes 0-1/9"],
     UpstreamResponse(200, <<>>, <<0, 1>>),
     UpstreamResponse(503, HtmlType, <<60, 104, 62>>),
     UpstreamResponse(304, <<>>, <<>>),
     UpstreamResponse(999, HtmlType, <<60, 104, 62>>)}

\* the revisions of the origin-gated handler
Revisions == {OriginGated, Part011, Part012, Part012Development}

\* the try block of the token-gated handler runs for a request the gate
\* admitted
Fetch ==
    /\ last = None
    /\ \E origin \in RequestOrigins, url \in FetchUrls, range \in Ranges :
          LET request == [method |-> "GET", origin |-> origin, range |-> range,
                          url |-> url, token |-> generateToken(url, now)]
          IN  \E up \in (IF fetchPlan(request).thrown = "" THEN FetchUpstreams
                         ELSE {NoUpstream}) :
                 last' = [kind |-> "fetch", request |-> request, up |-> up]
                            @@ tokenGatedFetch(request, Self, now, up)
    /\ UNCHANGED <<now, held, input, output, urlMappings, peerMappings, tokenCache>>

\* a request arrives at an origin-gated handler and is answered. A revision
\* without a fetch timeout answers only once the upstream has answered
OriginGatedRequest ==
    /\ last = None
    /\ \E rev \in Revisions, method \in {"GET", "OPTIONS"},
          origin \in RequestOrigins \cup {LocalhostOrigin},
          url \in {Undefined, <<>>} \cup FetchUrls, range \in Ranges,
          token \in {Undefined, generateToken(<<57>>, now)} :
          LET request == [method |-> method, origin |-> origin, range |-> range,
                          url |-> url, token |-> token]
          IN  \E up \in (IF originGate(rev, request) = "pass" /\ ParseUrl(url).ok
                         THEN {u \in FetchUpstreams : u.kind = "timeout" => rev.timeoutMs > 0}
                         ELSE {NoUpstream}) :
                 last' = [kind |-> "origin-gated", rev |-> rev.name,
                          nodeEnv |-> rev.nodeEnv, request |-> request, up |-> up]
                            @@ originGatedHandler(rev, request, SelfOrigin, SelfPath, up)
    /\ UNCHANGED <<now, held, input, output, urlMappings, peerMappings, tokenCache>>

NextFetch == Fetch \/ OriginGatedRequest \/ Request \/ Consume

SpecFetch == Init /\ [][NextFetch]_vars

----------------------------------------------------------------------------
(* A chain of proxy requests: the client asks for a playlist annotated     *)
(* with a referer, then follows the URLs of the rewritten playlists        *)

\* 'v.m3u8\ns.ts': a playlist that names a nested playlist and a segment
NestedPlaylist ==
    <<118, 46, 109, 51, 117, 56, 10, 115, 46, 116, 115>>

\* what the upstream answers along a chain
ChainUpstreams ==
    {UpstreamResponse(200, MpegUrlType, NestedPlaylist),
     UpstreamResponse(200, MpegUrlType, TwoLinePlaylist),
     UpstreamResponse(200, VideoType, <<0, 1>>)}

MaxHops == 3

\* the proxy URLs of a rewritten playlist: the lines that start with
\* <self>?url=
EmittedUrls(text, self) ==
    {l \in {Split(text, LF)[i] : i \in 1..Len(Split(text, LF))} : StartsWith(l, self \o UrlEq)}

\* the request a player makes for an emitted proxy URL: url and token are
\* read out of its query string
RequestFor(emitted, origin) ==
    [method |-> "GET", origin |-> origin, range |-> "",
     url |-> SearchParamsGet(ParseUrl(emitted).search, <<117, 114, 108>>),
     token |-> SearchParamsGet(ParseUrl(emitted).search, <<116, 111, 107, 101, 110>>)]

\* the first request of a chain: a playlist annotated with the referer r; the
\* try block of the token-gated handler runs for it
ChainStart ==
    /\ held = None
    /\ \E r \in Referers, origin \in RequestOrigins, up \in ChainUpstreams :
          LET url == withReferer(PlaylistUrl, r)
              request == [method |-> "GET", origin |-> origin, range |-> "",
                          url |-> url, token |-> generateToken(url, now)]
          IN  /\ held' = [kind |-> "chain", referer |-> r, hops |-> 1]
              /\ last' = [kind |-> "hop", request |-> request, up |-> up]
                            @@ tokenGatedFetch(request, Self, now, up)
    /\ UNCHANGED <<now, input, output, urlMappings, peerMappings, tokenCache>>

\* the player follows a URL of the rewritten playlist it received; the try
\* block of the token-gated handler runs for that request
Follow ==
    /\ held.kind = "chain"
    /\ held.hops < MaxHops
    /\ last.kind = "hop"
    /\ last.response.status = 200
    /\ last.response.body.kind = "text"
    /\ \E emitted \in EmittedUrls(last.response.body.text, Self), up \in ChainUpstreams :
          last' = [kind |-> "hop", request |-> RequestFor(emitted, last.request.origin),
                   up |-> up]
                     @@ tokenGatedFetch(RequestFor(emitted, last.request.origin), Self, now, up)
    /\ held' = [held EXCEPT !.hops = @ + 1]
    /\ UNCHANGED <<now, input, output, urlMappings, peerMappings, tokenCache>>

NextChain == ChainStart \/ Follow

SpecChain == Init /\ [][NextChain]_vars

----------------------------------------------------------------------------
(* The upstream fetch of the token-gated handler over time (lines 128-157): *)
(* the abort timer, the arrival of the headers and the buffering of a       *)
(* playlist body                                                            *)

\* setTimeout(() => controller.abort(), 10000)
FetchTimeoutMs == 10000

\* the clock is read WaitSteps times per timeout, and up to twice the timeout
WaitSteps == 4
WaitStepMs == FetchTimeoutMs \div WaitSteps
MaxWaitMs == 2 * FetchTimeoutMs

\* how much of its answer the upstream delivers: headers and body, the
\* headers only, or nothing
Deliveries == {"all", "headers", "nothing"}

\* the answer of the handler to the request in flight
Answered(outcome) ==
    [kind |-> "answered", request |-> held.request, elapsed |-> now - held.started]
        @@ outcome

\* lines 129-136: the timer is armed and fetch is called (requests arrive
\* during the first FetchTimeoutMs of the run)
StartFetch ==
    /\ held = None
    /\ last = None
    /\ now < StartBucket * BucketMs + FetchTimeoutMs
    /\ \E origin \in RequestOrigins, url \in {PlaylistUrl, SegmentUrl}, up \in Upstreams,
          delivers \in Deliveries :
          /\ up.kind = "response"
          /\ held' = [kind |-> "inflight", phase |-> "fetching", timer |-> TRUE,
                      started |-> now, up |-> up, delivers |-> delivers,
                      request |-> [method |-> "GET", origin |-> origin, range |-> "",
                                   url |-> url, token |-> generateToken(url, now)]]
    /\ UNCHANGED <<now, last, input, output, urlMappings, peerMappings, tokenCache>>

\* time passes while the request is in flight; an armed timer fires when it
\* is due, so time does not pass beyond that point before it has fired
Wait ==
    /\ held.kind = "inflight"
    /\ now < held.started + MaxWaitMs
    /\ held.timer => now < held.started + FetchTimeoutMs
    /\ now' = now + WaitStepMs
    /\ UNCHANGED <<held, last, input, output, urlMappings, peerMappings, tokenCache>>

\* lines 132-157: fetch resolves with the headers of the upstream and the
\* timer is cleared; an error status and a pass-through are answered at
\* once, a playlist is answered once response.text() resolves
HeadersArrive ==
    /\ held.kind = "inflight"
    /\ held.phase = "fetching"
    /\ held.delivers # "nothing"
    /\ IF StatusOk(held.up.status) /\ isPlaylist(held.up.contentType, held.request.url)
       THEN /\ held' = [held EXCEPT !.phase = "buffering", !.timer = FALSE]
            /\ UNCHANGED last
       ELSE /\ held' = None
            /\ last' = Answered(tokenGatedFetch(held.request, Self, now, held.up))
    /\ UNCHANGED <<now, input, output, urlMappings, peerMappings, tokenCache>>

\* lines 157-205: response.text() resolves and the playlist is rewritten
BodyArrives ==
    /\ held.kind = "inflight"
    /\ held.phase = "buffering"
    /\ held.delivers = "all"
    /\ held' = None
    /\ last' = Answered(tokenGatedFetch(held.request, Self, now, held.up))
    /\ UNCHANGED <<now, input, output, urlMappings, peerMappings, tokenCache>>

\* lines 130 and 228-240: the timer fires, controller.abort() rejects the
\* fetch and the catch block answers
TimerFires ==
    /\ held.kind = "inflight"
    /\ held.timer
    /\ now >= held.started + FetchTimeoutMs
    /\ held' = None
    /\ last' = Answered(tokenGatedFetch(held.request, Self, now, [kind |-> "timeout"]))
    /\ UNCHANGED <<now, input, output, urlMappings, peerMappings, tokenCache>>

NextWait == StartFetch \/ Wait \/ HeadersArrive \/ BodyArrives \/ TimerFires \/ Consume

SpecWait == Init /\ [][NextWait]_vars

----------------------------------------------------------------------------
(* The path-based proxy (api/proxy/[...path].ts)                           *)

\* '/api/proxy/'
ApiProxy ==
    <<47, 97, 112, 105, 47, 112, 114, 111, 120, 121, 47>>

\* API_KEY.substring(0, 32)
UrlKeyLen == 32
UrlKey == SubSeq(API_KEY, 1, IF Len(API_KEY) < UrlKeyLen THEN Len(API_KEY) ELSE UrlKeyLen)

\* the loops of lines 25-27 and 45-47: byte i (0-based) is XORed with
\* keyBytes[i % keyBytes.length]
XorUrlKey(bytes) ==
    [i \in 1..Len(bytes) |-> BitXor(bytes[i], UrlKey[((i - 1) % Len(UrlKey)) + 1])]

\* encryptUrl(url) (lines 18-33)
encryptUrl(url) ==
    ReplaceAll(ReplaceAll(ReplaceAll(Base64Encode(XorUrlKey(Utf8Encode(url))),
                                     43, <<45>>), 47, <<95>>), Pad, <<>>)

\* decryptUrl(encrypted) (lines 38-50): Buffer.from and TextDecoder never throw
decryptUrl(encrypted) ==
    Utf8Decode(XorUrlKey(Base64Decode(ReplaceAll(ReplaceAll(encrypted, 45, <<43>>),
                                                 95, <<47>>))))

\* generatePath(url) (lines 55-62) for a URL that parses: the last three
\* segments of the path, or 'stream.m3u8'
generatePath(url) ==
    LET pathParts == SelectSeq(Split(ParseUrl(url).pathname, 47), LAMBDA part : part # <<>>)
        n == Len(pathParts)
        cleanPath == Join(SubSeq(pathParts, IF n > 3 THEN n - 2 ELSE 1, n), Slash)
    IN  IF cleanPath # <<>> THEN cleanPath
        ELSE <<115, 116, 114, 101, 97, 109, 46, 109, 51, 117, 56>>

\* urlMappings.get(key); undefined when the key is absent
MapGet(mappings, key) == IF key \in DOMAIN mappings THEN mappings[key] ELSE Undefined

\* createProxyPath(originalUrl) (lines 67-76): the Map after the two calls of
\* set; the path returned is generatePath(originalUrl)
createProxyPath(originalUrl, mappings) ==
    (generatePath(originalUrl) :> encryptUrl(originalUrl))
        @@ (encryptUrl(originalUrl) :> originalUrl) @@ mappings

\* resolveUrl(path) (lines 81-94)
resolvePath(path, mappings) ==
    IF Truthy(MapGet(mappings, path)) /\ MapGet(mappings, path) \in DOMAIN mappings
    THEN IF Truthy(mappings[mappings[path]]) THEN mappings[mappings[path]] ELSE Undefined
    ELSE decryptUrl(path)

\* getCorsHeaders(origin) (lines 96-110)
getCorsHeadersPath(origin) ==
    getCorsHeaders(origin)
        @@ [XFrameOptions |-> "DENY", XContentTypeOptions |-> "nosniff",
            ReferrerPolicy |-> "no-referrer"]

\* what a call of the handler comes to: its response, the upstream fetches it
\* made and the Map it leaves
PathOutcome(response, fetches, mappings) ==
    [response |-> response, fetches |-> fetches, urlMappings |-> mappings]

\* the handler threw: the exception leaves it and there is no response
Escaped(exception, mappings) ==
    [escaped |-> exception, fetches |-> <<>>, urlMappings |-> mappings]

\* url.pathname.match(/\/api\/proxy\/(.+)/): the capture, null (Undefined)
\* when there is no match
pathMatch(pathname) ==
    IF IndexOf(pathname, ApiProxy) = 0
       \/ IndexOf(pathname, ApiProxy) + Len(ApiProxy) > Len(pathname)
    THEN Undefined
    ELSE SubSeq(pathname, IndexOf(pathname, ApiProxy) + Len(ApiProxy), Len(pathname))

\* lines 217-233 and 235-237: the absolute URLs of the media lines of a
\* playlist, in order
mediaUrls(text, baseUrl, refererParam) ==
    LET media == SelectSeq(Split(text, LF),
                           LAMBDA l : Trim(l) # <<>> /\ ~StartsWith(Trim(l), Hash))
    IN  [i \in 1..Len(media) |->
            withReferer(resolveLine(Trim(media[i]), baseUrl), refererParam)]

RECURSIVE registerAll(_, _)
\* the calls of createProxyPath of one pass over a playlist (line 240)
registerAll(urls, mappings) ==
    IF urls = <<>> THEN mappings
    ELSE registerAll(Tail(urls), createProxyPath(Head(urls), mappings))

\* lines 217-243, one pass of the loop: what is pushed for a line. A blank
\* line and a comment are pushed as they are, untrimmed
pathLine(line, baseUrl, refererParam, selfOrigin) ==
    IF Trim(line) = <<>> \/ StartsWith(Trim(line), Hash) THEN line
    ELSE selfOrigin \o ApiProxy
            \o encodeURIComponent(
                  generatePath(withReferer(resolveLine(Trim(line), baseUrl), refererParam)))

\* lines 214-247: rewrittenLines.join('\n')
rewritePath(text, baseUrl, refererParam, selfOrigin) ==
    LET lines == Split(text, LF)
    IN  Join([i \in 1..Len(lines) |-> pathLine(lines[i], baseUrl, refererParam, selfOrigin)],
             <<LF>>)

\* lines 279-291: the catch block
pathFailed(origin) == JsonWith(500, [error |-> "Proxy failed"], getCorsHeadersPath(origin))

\* lines 211-255: the playlist is rewritten. new URL in generatePath throws
\* on a media line that gives no URL: the lines before it are registered and
\* the catch block answers
pathPlaylist(text, baseUrl, refererParam, selfOrigin, origin, urls, mappings) ==
    IF \E i \in 1..Len(urls) : ~ParseUrl(urls[i]).ok
    THEN [response |-> pathFailed(origin),
          urlMappings |->
              registerAll(SubSeq(urls, 1,
                                 (CHOOSE i \in 1..Len(urls) :
                                     /\ ~ParseUrl(urls[i]).ok
                                     /\ \A j \in 1..(i - 1) : ParseUrl(urls[j]).ok) - 1),
                          mappings)]
    ELSE [response |->
              [status |-> 200,
               headers |-> [ContentType |-> MpegUrlType,
                            CacheControl |-> "public, max-age=10, s-maxage=10"]
                               @@ getCorsHeadersPath(origin),
               body |-> [kind |-> "text",
                         text |-> rewritePath(text, baseUrl, refererParam, selfOrigin)]],
          urlMappings |-> registerAll(urls, mappings)]

\* lines 191-277: the response to an upstream that answered, and the Map
pathRespond(up, request, targetUrl, plan, selfOrigin, mappings) ==
    IF ~StatusOk(up.status)
    THEN [response |-> IF ResponseThrows(up.status) # "" THEN pathFailed(request.origin)
                       ELSE JsonWith(up.status, [error |-> <<"Upstream error: ", up.status>>],
                                     getCorsHeadersPath(request.origin)),
          urlMappings |-> mappings]
    ELSE IF isPlaylist(up.contentType, targetUrl)
         THEN pathPlaylist(up.body, ParseUrl(plan.cleanTargetUrl), plan.refererParam,
                           selfOrigin, request.origin,
                           mediaUrls(up.body, ParseUrl(plan.cleanTargetUrl), plan.refererParam),
                           mappings)
    ELSE [response |-> [status |-> up.status,
                        headers |-> passThroughHeaders(up, getCorsHeadersPath(request.origin)),
                        body |-> [kind |-> "stream", of |-> up.body]],
          urlMappings |-> mappings]

\* lines 155-291: the try block for a resolved target URL; the plan is that
\* of lines 157-178, the same statements as in the token-gated handler
pathFetch(request, targetUrl, plan, selfOrigin, mappings, up) ==
    IF plan.thrown # "" THEN PathOutcome(pathFailed(request.origin), <<>>, mappings)
    ELSE IF up.kind \in {"error", "timeout"}
         THEN PathOutcome(pathFailed(request.origin),
                          <<[url |-> plan.cleanTargetUrl, headers |-> plan.fetchHeaders]>>,
                          mappings)
    ELSE [fetches |-> <<[url |-> plan.cleanTargetUrl, headers |-> plan.fetchHeaders]>>]
            @@ pathRespond(up, request, targetUrl, plan, selfOrigin, mappings)

\* lines 139-291, for a decoded path
pathResolved(request, targetUrl, selfOrigin, mappings, up) ==
    IF ~Truthy(targetUrl)
    THEN PathOutcome(JsonWith(404, [error |-> "Stream not found"],
                              getCorsHeadersPath(request.origin)), <<>>, mappings)
    ELSE pathFetch(request, targetUrl,
                   fetchPlan([url |-> targetUrl, range |-> request.range]),
                   selfOrigin, mappings, up)

\* lines 124-291, for a request that is not a preflight. The call of
\* decodeURIComponent of line 136 is outside every try block
pathMatched(request, match, selfOrigin, mappings, up) ==
    IF match = Undefined
    THEN PathOutcome(JsonWith(400, [error |-> "Invalid path"],
                              getCorsHeadersPath(request.origin)), <<>>, mappings)
    ELSE IF decodeURIComponent(match) = Undefined
         THEN Escaped("URIError: URI malformed", mappings)
    ELSE pathResolved(request, resolvePath(decodeURIComponent(match), mappings),
                      selfOrigin, mappings, up)

\* handler(request) (lines 112-292). A request is its method, its Origin and
\* Range headers and the pathname of its URL; selfOrigin is url.origin
pathHandler(request, selfOrigin, mappings, up) ==
    IF request.method = "OPTIONS"
    THEN PathOutcome([status |-> 204, headers |-> getCorsHeadersPath(request.origin),
                      body |-> [kind |-> "null"]], <<>>, mappings)
    ELSE pathMatched(request, pathMatch(request.pathname), selfOrigin, mappings, up)

\* the target URL a request resolves to; Undefined when it resolves to none
pathTarget(request, mappings) ==
    IF request.method = "OPTIONS" \/ pathMatch(request.pathname) = Undefined
       \/ decodeURIComponent(pathMatch(request.pathname)) = Undefined
    THEN Undefined
    ELSE resolvePath(decodeURIComponent(pathMatch(request.pathname)), mappings)

\* 'a.ts\nhttp://': a playlist with a line that is not a URL
BrokenPlaylist ==
    <<97, 46, 116, 115, 10, 104, 116, 116, 112, 58, 47, 47>>

\* the paths a client asks for: the encrypted form of a URL, a clean path
\* minted by an earlier rewrite, a path with a malformed escape, a path that
\* decrypts to nothing, no path, another route
RequestPaths ==
    {ApiProxy \o encryptUrl(u) : u \in {PlaylistUrl, SegmentUrl, <<57>>}}
        \cup {ApiProxy \o encodeURIComponent(k) : k \in DOMAIN urlMappings}
        \cup {ApiProxy \o <<37>>, ApiProxy \o <<33>>, ApiProxy,
              <<47, 97, 112, 105, 47, 111, 116, 104, 101, 114>>}

\* what the upstream may do when the path-based proxy fetches it
PathUpstreams ==
    {UpstreamResponse(200, MpegUrlType, NestedPlaylist),
     UpstreamResponse(200, MpegUrlType, BrokenPlaylist),
     UpstreamResponse(200, VideoType, <<0, 1>>),
     UpstreamResponse(404, HtmlType, <<60, 104, 62>>),
     [kind |-> "error"],
     [kind |-> "timeout"]}

\* a request arrives at the path-based proxy: it is answered, or the handler
\* throws
PathRequest ==
    /\ last = None
    /\ \E method \in {"GET", "OPTIONS"}, origin \in RequestOrigins,
          pathname \in RequestPaths :
          LET request == [method |-> method, origin |-> origin, range |-> "",
                          pathname |-> pathname]
              target == pathTarget(request, urlMappings)
          IN  \E up \in (IF Truthy(target) /\ fetchPlan([url |-> target, range |-> ""]).thrown = ""
                         THEN PathUpstreams ELSE {NoUpstream}) :
                 /\ last' = [kind |-> "path-request", request |-> request, up |-> up]
                               @@ pathHandler(request, SelfOrigin, urlMappings, up)
                 /\ urlMappings' = pathHandler(request, SelfOrigin, urlMappings, up).urlMappings
    /\ UNCHANGED <<now, held, input, output, peerMappings, tokenCache>>

NextPath == PathRequest \/ Request \/ Fetch \/ Consume

SpecPath == Init /\ [][NextPath]_vars

----------------------------------------------------------------------------
(* The client issues a token for a URL and presents it to the server's     *)
(* verifyToken in the bucket it was issued in.                             *)

\* the client revisions whose generateToken is marked as matching the server
ClientRevisions == {"part_002", "part_007"}

\* the URLs the client proxies: "/9", the absolute URLs of the codec, and
\* URLs whose path holds a character above 127 ("/é", "http://9/é") or
\* above 255 ("/а", Cyrillic)
ClientUrls ==
    HttpUrls \cup
    {<<47, 57>>, <<47, 233>>, <<104, 116, 116, 112, 58, 47, 47, 57, 47, 233>>,
     <<47, 1072>>}

\* getProxiedUrl calls generateToken(u); the client keeps the result
ClientIssue ==
    /\ held = None
    /\ \E rev \in ClientRevisions, u \in ClientUrls :
          held' = [kind |-> "client-issued", rev |-> rev, url |-> u,
                   client |-> generateTokenOf(rev, u, now), at |-> now]
    /\ last' = None
    /\ UNCHANGED <<now, input, output, urlMappings, peerMappings, tokenCache>>

\* the token is presented in the bucket it was issued in: the server's
\* generateToken and verifyToken are applied to the same URL
ClientPresent ==
    /\ held # None
    /\ last = None
    /\ Bucket(now) = Bucket(held.at)
    /\ last' = [kind |-> "client-token", rev |-> held.rev, url |-> held.url,
                client |-> held.client,
                server |-> generateToken(held.url, now),
                accepted |-> held.client.ok /\ verifyToken(held.client.token, held.url, now)]
    /\ held' = None
    /\ UNCHANGED <<now, input, output, urlMappings, peerMappings, tokenCache>>

NextClient == Tick \/ ClientIssue \/ ClientPresent \/ Consume

SpecClient == InitToken /\ [][NextClient]_vars

----------------------------------------------------------------------------
(* The player follows a rewritten line through the whole token-gated       *)
(* handler: parameter validation, token gate, upstream fetch               *)

\* the proxy URLs of a rewritten playlist by line number: the lines that
\* start with <self>?url=
EmittedLines(text, self) ==
    {i \in 1..Len(Split(text, LF)) : StartsWith(Split(text, LF)[i], self \o UrlEq)}

\* the player requests line i of the rewritten playlist it received, at the
\* endpoint that rewrote it and at the time it was rewritten; `line` is the
\* line of the upstream playlist that the emitted URL stands for and
\* `resolved` the URL that line resolves to against the fetched playlist
FollowEmitted ==
    /\ held.kind = "chain"
    /\ held.hops < MaxHops
    /\ last.kind = "hop"
    /\ last.response.status = 200
    /\ last.response.body.kind = "text"
    /\ \E i \in EmittedLines(last.response.body.text, Self) :
          LET emitted == Split(last.response.body.text, LF)[i]
              request == RequestFor(emitted, last.request.origin)
              line == Trim(Split(last.up.body, LF)[i])
          IN  \E up \in (IF tokenGate(request, now) = "pass" THEN ChainUpstreams
                         ELSE {NoUpstream}) :
                 last' = [kind |-> "followed", request |-> request, up |-> up,
                          emitted |-> emitted, line |-> line,
                          resolved |-> resolveLine(line, ParseUrl(last.fetches[1].url))]
                            @@ handler(request, Self, now, up)
    /\ held' = [held EXCEPT !.hops = @ + 1]
    /\ UNCHANGED <<now, input, output, urlMappings, peerMappings, tokenCache>>

NextFollow == ChainStart \/ Follow \/ FollowEmitted

SpecFollow == Init /\ [][NextFollow]_vars

----------------------------------------------------------------------------
(* Two instances of the path-based proxy, each with its own urlMappings:    *)
(* a client is served by either                                            *)

\* a request arrives at the second instance, which resolves it against its
\* own Map; the client asks for the paths the first instance handed out as
\* well
PeerRequest ==
    /\ last = None
    /\ \E method \in {"GET", "OPTIONS"}, origin \in RequestOrigins,
          pathname \in RequestPaths :
          LET request == [method |-> method, origin |-> origin, range |-> "",
                          pathname |-> pathname]
              target == pathTarget(request, peerMappings)
          IN  \E up \in (IF Truthy(target) /\ fetchPlan([url |-> target, range |-> ""]).thrown = ""
                         THEN PathUpstreams ELSE {NoUpstream}) :
                 /\ last' = [kind |-> "peer-request", request |-> request, up |-> up]
                               @@ pathHandler(request, SelfOrigin, peerMappings, up)
                 /\ peerMappings' = pathHandler(request, SelfOrigin, peerMappings, up).urlMappings
    /\ UNCHANGED <<now, held, input, output, urlMappings, tokenCache>>

NextInstances == PathRequest \/ PeerRequest \/ Consume

SpecInstances == Init /\ [][NextInstances]_vars

----------------------------------------------------------------------------
(* The Map of the path-based proxy over a sequence of createProxyPath and  *)
(* resolveUrl calls on one instance                                        *)

\* 'http://c/a/s.ts': the same path on another host
OtherHostSegmentUrl ==
    <<104, 116, 116, 112, 58, 47, 47, 99, 47, 97, 47, 115, 46, 116, 115>>

\* 'http://o/a/s.ts?q=1': the same path with a query string
OtherQuerySegmentUrl ==
    <<104, 116, 116, 112, 58, 47, 47, 111, 47, 97, 47, 115, 46, 116, 115, 63, 113, 61, 49>>

\* 'http://o/b/s.ts': another path
OtherPathSegmentUrl ==
    <<104, 116, 116, 112, 58, 47, 47, 111, 47, 98, 47, 115, 46, 116, 115>>

\* the URLs registered: a playlist, a segment, and segments that share the
\* last three path segments with it or differ in them
MapUrls ==
    {PlaylistUrl, SegmentUrl, OtherHostSegmentUrl, OtherQuerySegmentUrl,
     OtherPathSegmentUrl}

\* the (path, URL) pairs createProxyPath has returned so far
Minted == IF held.kind = "minted" THEN held.pairs ELSE {}

\* createProxyPath(u) is called, as the rewrite of a playlist does for each
\* media line
CreateProxyPath ==
    /\ last = None
    /\ \E u \in MapUrls :
          /\ urlMappings' = createProxyPath(u, urlMappings)
          /\ held' = [kind |-> "minted", pairs |-> Minted \cup {<<generatePath(u), u>>}]
          /\ last' = [kind |-> "created", url |-> u, path |-> generatePath(u)]
    /\ UNCHANGED <<now, input, output, peerMappings, tokenCache>>

\* resolveUrl(p) is called for a path that createProxyPath returned
ResolveUrl ==
    /\ last = None
    /\ \E pair \in Minted :
          last' = [kind |-> "resolved", path |-> pair[1],
                   url |-> resolvePath(pair[1], urlMappings)]
    /\ UNCHANGED <<now, held, input, output, urlMappings, peerMappings, tokenCache>>

NextMap == CreateProxyPath \/ ResolveUrl \/ Consume

SpecMap == Init /\ [][NextMap]_vars

----------------------------------------------------------------------------
(* StreamService (unnamed/part_010, lines 62-139): the token cache of the   *)
(* frontend, the calls of getStreamToken in flight, and the clock          *)

\* the margin of line 74, in milliseconds
FreshMarginMs == 60000

\* the test with the margin left out: a cached token is used until the
\* moment it expires
isUnexpired(cache, channelId, t) ==
    channelId \in DOMAIN cache /\ cache[channelId].expiresAt > t

\* line 74: cached && cached.expiresAt > Date.now() + 60000
isFresh(cache, channelId, t) ==
    channelId \in DOMAIN cache /\ cache[channelId].expiresAt > t + FreshMarginMs

\* lines 93-97: the StreamToken made of the backend's answer at time t
StreamToken(data, t) ==
    [token |-> data.token, expiresIn |-> data.expiresIn,
     expiresAt |-> t + data.expiresIn * 1000]

\* this.tokenCache.set(channelId, streamToken) (line 100)
CacheSet(cache, channelId, streamToken) ==
    [k \in DOMAIN cache \cup {channelId} |->
        IF k = channelId THEN streamToken ELSE cache[k]]

\* this.tokenCache.delete(channelId) (line 124)
CacheDelete(cache, channelId) == [k \in DOMAIN cache \ {channelId} |-> cache[k]]

\* the channels the frontend plays
Channels == {"news", "sport"}

\* expiresIn of the backend's answers, in seconds
ExpiresIns == {30, 90, 120}

MaxPending == 2
MaxCacheTicks == 5

\* the channel ids of the calls of getStreamToken that await the backend,
\* in the order the requests were sent
Pending == IF held.kind = "calls" THEN held.pending ELSE <<>>

\* the sequence s without its element i
Without(s, i) == SubSeq(s, 1, i - 1) \o SubSeq(s, i + 1, Len(s))

\* getStreamToken(channelId) is called (lines 71-88): a fresh cached token is
\* returned at once; otherwise the request to the backend is sent and the
\* call awaits the answer
GetStreamToken ==
    /\ last = None
    /\ \E channelId \in Channels :
          IF isFresh(tokenCache, channelId, now)
          THEN /\ last' = [kind |-> "token", channelId |-> channelId, cached |-> TRUE,
                           token |-> tokenCache[channelId].token,
                           expiresIn |-> tokenCache[channelId].expiresIn,
                           expiresAt |-> tokenCache[channelId].expiresAt]
               /\ UNCHANGED held
          ELSE /\ Len(Pending) < MaxPending
               /\ last' = [kind |-> "requested", channelId |-> channelId]
               /\ held' = [kind |-> "calls", pending |-> Append(Pending, channelId)]
    /\ UNCHANGED <<now, input, output, urlMappings, peerMappings, tokenCache>>

\* the backend answers a call in flight with a token (lines 86-102): the
\* StreamToken is stored under the channel id and its token returned
BackendAnswers ==
    /\ last = None
    /\ \E i \in 1..Len(Pending), expiresIn \in ExpiresIns :
          LET channelId == Pending[i]
              data == [token |-> [channelId |-> channelId, issuedAt |-> now],
                       expiresIn |-> expiresIn]
              streamToken == StreamToken(data, now)
          IN  /\ tokenCache' = CacheSet(tokenCache, channelId, streamToken)
              /\ held' = [kind |-> "calls", pending |-> Without(Pending, i)]
              /\ last' = [kind |-> "token", channelId |-> channelId, cached |-> FALSE,
                          token |-> streamToken.token,
                          expiresIn |-> streamToken.expiresIn,
                          expiresAt |-> streamToken.expiresAt]
    /\ UNCHANGED <<now, input, output, urlMappings, peerMappings>>

\* the request of a call in flight fails (lines 86-88 and 103-106): fetch
\* rejects, or the response is not ok, and the call throws
BackendFails ==
    /\ last = None
    /\ \E i \in 1..Len(Pending) :
          /\ held' = [kind |-> "calls", pending |-> Without(Pending, i)]
          /\ last' = [kind |-> "failed", channelId |-> Pending[i], before |-> tokenCache]
    /\ UNCHANGED <<now, input, output, urlMappings, peerMappings, tokenCache>>

\* clearToken(channelId) (lines 123-125)
ClearToken ==
    /\ last = None
    /\ \E channelId \in Channels :
          /\ channelId \in DOMAIN tokenCache
          /\ tokenCache' = CacheDelete(tokenCache, channelId)
    /\ UNCHANGED <<now, held, last, input, output, urlMappings, peerMappings>>

\* clearAllTokens() (lines 130-132)
ClearAllTokens ==
    /\ last = None
    /\ tokenCache # EmptyMap
    /\ tokenCache' = EmptyMap
    /\ UNCHANGED <<now, held, last, input, output, urlMappings, peerMappings>>

\* the clock advances
CacheTick ==
    /\ last = None
    /\ now < StartBucket * BucketMs + MaxCacheTicks * TickMs
    /\ now' = now + TickMs
    /\ UNCHANGED <<held, last, input, output, urlMappings, peerMappings, tokenCache>>

NextCache ==
    \/ GetStreamToken \/ BackendAnswers \/ BackendFails
    \/ ClearToken \/ ClearAllTokens \/ CacheTick \/ Consume

SpecCache == Init /\ [][NextCache]_vars

----------------------------------------------------------------------------
(* Properties of the token codec (SpecToken, SpecForge)                    *)

\* C1: a token generated for an absolute http(s) URL u at bucket b is accepted
\* by verifyToken(token, u) at every bucket b' with |b' - b| <= 5, in
\* particular right after it is issued.
TokenRoundTrip ==
    (/\ last.kind = "verify"
     /\ held.url \in HttpUrls
     /\ last.url = held.url
     /\ Abs(Bucket(now) - Bucket(held.at)) <= 5)
        => last.ok

\* C2: a token issued for URL u at bucket b is rejected by verifyToken(token, u)
\* at bucket b + 6 and at every later bucket, and a request replaying it then
\* is answered 401 by the token-gated handler.
TokenExpiry ==
    (held # None /\ Bucket(now) >= Bucket(held.at) + 6) =>
        /\ (last.kind = "verify" /\ last.url = held.url) => ~last.ok
        /\ last.kind = "request" => last.response.status = 401

\* a token that verified when it was issued is replayed six buckets later and
\* the request is answered 401
TokenExpiryReached ==
    /\ held # None
    /\ verifyToken(held.token, held.url, held.at)
    /\ Bucket(now) = Bucket(held.at) + 6
    /\ last.kind = "request"
    /\ last.request.token = held.token
    /\ last.response.status = 401

\* C3: for all URLs u1 # u2 and all buckets, verifyToken(generateToken(u1), u2)
\* is false: a token minted for one URL never admits another URL.
TokenUrlBinding ==
    (last.kind = "verify" /\ held.kind = "issued" /\ last.url # held.url) => ~last.ok

\* C4: verifyToken returns false, for every url, on every token that does not
\* decode to a well-formed payload: a character outside the base64url
\* alphabet, a wrong length, no ":" separator, or a bucket field that is not a
\* decimal integer (such as digits followed by other characters).
VerifyFailsClosed ==
    LET Base64Url == (65..90) \cup (97..122) \cup Digits \cup {45, 95}
        WellFormed(token) ==
            LET payload == TokenPayload(token)
                sep == LastIndexOf(payload, Colon)
                bucket == SubSeq(payload, sep + 1, Len(payload))
            IN  /\ \A i \in 1..Len(token) : token[i] \in Base64Url
                /\ Len(token) % 4 # 1
                /\ sep > 0
                /\ bucket # <<>>
                /\ \A i \in 1..Len(bucket) : bucket[i] \in Digits
    IN  (last.kind = "verify" /\ held.kind = "forged" /\ ~WellFormed(held.token))
            => ~last.ok

----------------------------------------------------------------------------
(* Properties of the gate of the token-gated handler (Spec)                *)

\* C5, as stated: a non-OPTIONS request that carries a url parameter and whose
\* token is missing or fails verifyToken against that url is answered 401 with
\* a JSON body that has an "error" field, and no upstream fetch is made.
GateFailureAnyUrl ==
    (/\ last.kind = "request"
     /\ last.request.method # "OPTIONS"
     /\ last.request.url # Undefined
     /\ \/ last.request.token = Undefined
        \/ ~verifyToken(last.request.token, last.request.url, now))
        => /\ last.response.status = 401
           /\ last.response.body.kind = "json"
           /\ "error" \in DOMAIN last.response.body.json
           /\ last.fetches = <<>>

\* C5, amended: a non-OPTIONS request that carries a non-empty url parameter
\* and whose token is missing or fails verifyToken against that url is
\* answered 401 with a JSON body that has an "error" field, and no upstream
\* fetch is made.
GateFailure ==
    (/\ last.kind = "request"
     /\ last.request.method # "OPTIONS"
     /\ Truthy(last.request.url)
     /\ \/ last.request.token = Undefined
        \/ ~verifyToken(last.request.token, last.request.url, now))
        => /\ last.response.status = 401
           /\ last.response.body.kind = "json"
           /\ "error" \in DOMAIN last.response.body.json
           /\ last.fetches = <<>>

\* a GET with a url and a token that was minted for that url six buckets
\* earlier is answered 401 and nothing is fetched
GateFailureReached ==
    /\ last.kind = "request"
    /\ last.request.method = "GET"
    /\ Truthy(last.request.url)
    /\ last.request.token = generateToken(last.request.url, now - (TokenWindow + 1) * BucketMs)
    /\ ~verifyToken(last.request.token, last.request.url, now)
    /\ last.response.status = 401
    /\ last.fetches = <<>>

----------------------------------------------------------------------------
(* Properties of the URL resolution (SpecResolve)                          *)

\* C6: the resolution the token-gated handler applies to a playlist line, and
\* resolveUrl, follow four cases in priority order: a reference starting with
\* http:// or https:// is returned unchanged; one starting with "//" gets the
\* base's scheme; one starting with "/" gets the base's scheme and host; any
\* other gets scheme, host and the base path cut after its last "/". With the
\* base https://cdn.example.com/live/chan1/ the four references of the table
\* resolve to the four URLs of the table.
FourCaseResolution ==
    LET baseUrl == ParseUrl(input.base)
        FourCases(ref) ==
            IF StartsWith(ref, HttpSlashes) \/ StartsWith(ref, HttpsSlashes) THEN ref
            ELSE IF StartsWith(ref, <<47, 47>>) THEN baseUrl.protocol \o ref
            ELSE IF StartsWith(ref, Slash) THEN UrlOrigin(baseUrl) \o ref
            ELSE UrlOrigin(baseUrl) \o BasePath(baseUrl) \o ref
        Table(ref) ==
            IF ref = RefSeg1 THEN ResSeg1
            ELSE IF ref = RefSeg2 THEN ResSeg2
            ELSE IF ref = RefSeg3 THEN ResSeg3
            ELSE RefSeg4
    IN  (output # None /\ output.fn \in {"resolveLine", "resolveUrl"}) =>
            /\ output.result = FourCases(input.ref)
            /\ (input.base = TableBase /\ input.ref \in TableRefs)
                   => output.result = Table(input.ref)

----------------------------------------------------------------------------
(* Properties of the playlist rewrites (SpecRewrite)                       *)

\* C7: the rewritten playlist has exactly as many "\n"-separated lines as the
\* input, whatever mix of blank, tag, tag-with-URI and media lines it holds and
\* whether or not it ends with a newline, and the i-th output line is the one
\* derived from the i-th input line.
LineCountInvariant ==
    output # None =>
        LET inLines == Split(input.text, LF)
            outLines == Split(output.text, LF)
            baseUrl == ParseUrl(input.base)
            derived(line) ==
                IF output.fn = "tokenGated"
                THEN tokenGatedLine(line, baseUrl, input.referer, Self, now)
                ELSE originGatedLine(line, baseUrl, BasePath(baseUrl), Self)
        IN  /\ Len(outLines) = Len(inLines)
            /\ \A i \in 1..Len(inLines) : outLines[i] = derived(inLines[i])

\* a playlist of a media line followed by a newline (so a blank last line) is
\* rewritten by the token-gated handler into two lines, the first a proxy URL
LineCountReached ==
    /\ output # None
    /\ output.fn = "tokenGated"
    /\ input.text = RefSeg1 \o <<LF>>
    /\ Len(Split(output.text, LF)) = 2
    /\ StartsWith(Split(output.text, LF)[1], Self \o UrlEq)
    /\ Split(output.text, LF)[2] = <<>>

MediaLineRewrite ==
    (output # None /\ output.fn = "tokenGated") =>
        LET inLines == Split(input.text, LF)
            outLines == Split(output.text, LF)
            baseUrl == ParseUrl(input.base)
            Resolved(ref) ==
                IF StartsWith(ref, HttpSlashes) \/ StartsWith(ref, HttpsSlashes) THEN ref
                ELSE IF StartsWith(ref, <<47, 47>>) THEN baseUrl.protocol \o ref
                ELSE IF StartsWith(ref, Slash) THEN UrlOrigin(baseUrl) \o ref
                ELSE UrlOrigin(baseUrl) \o BasePath(baseUrl) \o ref
            R(line) == withReferer(Resolved(Trim(line)), input.referer)
            Proxied(line) ==
                Self \o UrlEq \o encodeURIComponent(R(line))
                     \o TokenEq \o generateToken(R(line), now)
        IN  /\ \A i \in 1..Len(inLines) :
                  (Trim(inLines[i]) # <<>> /\ ~StartsWith(Trim(inLines[i]), Hash))
                      => (i \in DOMAIN outLines /\ outLines[i] = Proxied(inLines[i]))
            /\ (input.base = MasterUrl /\ input.text = TwoLinePlaylist)
                  => /\ Len(outLines) = 2
                     /\ StartsWith(outLines[2],
                                   Self \o UrlEq \o encodeURIComponent(MasterSeg1) \o TokenEq)

\* C10: a tag line that embeds a quoted URI (URI="x") is rewritten so that
\* only the quoted portion changes, into a proxy URL carrying
\* url=<urlencode(resolve(x))> and a token freshly minted for resolve(x).
TagUriRewrite ==
    output # None =>
        LET inLines == Split(input.text, LF)
            outLines == Split(output.text, LF)
            baseUrl == ParseUrl(input.base)
            Resolved(ref) ==
                IF StartsWith(ref, HttpSlashes) \/ StartsWith(ref, HttpsSlashes) THEN ref
                ELSE IF StartsWith(ref, <<47, 47>>) THEN baseUrl.protocol \o ref
                ELSE IF StartsWith(ref, Slash) THEN UrlOrigin(baseUrl) \o ref
                ELSE UrlOrigin(baseUrl) \o BasePath(baseUrl) \o ref
            \* the positions of the first character of x and of the closing quote
            Open(line) == IndexOf(line, UriQuote) + Len(UriQuote)
            Close(line) == IndexFrom(line, Quote, Open(line))
            HasUri(line) ==
                /\ StartsWith(line, Hash)
                /\ Includes(line, UriQuote)
                /\ Close(line) > Open(line)
            Rewritten(line) ==
                LET x == SubSeq(line, Open(line), Close(line) - 1)
                IN  SubSeq(line, 1, Open(line) - 1)
                        \o Self \o UrlEq \o encodeURIComponent(Resolved(x))
                        \o TokenEq \o generateToken(Resolved(x), now)
                        \o SubSeq(line, Close(line), Len(line))
        IN  \A i \in 1..Len(inLines) :
               HasUri(inLines[i])
                   => (i \in DOMAIN outLines /\ outLines[i] = Rewritten(inLines[i]))

----------------------------------------------------------------------------
(* Properties of the requests that reach the upstream (SpecFetch)          *)

\* C11: when the upstream answers a playlist request from a final URL that
\* differs from the requested target URL, the relative references of the
\* playlist are resolved against the final URL: the proxied URL emitted for a
\* relative reference carries the directory of the final URL followed by the
\* reference.
PostRedirectBase ==
    (/\ last.kind \in {"fetch", "origin-gated"}
     /\ last.up.kind = "response"
     /\ last.up.location # Undefined
     /\ last.up.location # last.request.url
     /\ last.response.status = 200
     /\ last.response.body.kind = "text")
        => LET final == ParseUrl(last.up.location)
               dir == final.protocol \o <<47, 47>> \o final.host \o BasePath(final)
               lines == Split(last.up.body, LF)
               out == Split(last.response.body.text, LF)
               Relative(l) == /\ l # <<>>
                              /\ ~StartsWith(l, Hash)
                              /\ ~StartsWith(l, Slash)
                              /\ ~StartsWith(l, HttpSlashes)
                              /\ ~StartsWith(l, HttpsSlashes)
           IN  \A i \in 1..Len(lines) :
                  Relative(Trim(lines[i]))
                      => Includes(out[i], encodeURIComponent(dir \o Trim(lines[i])))

\* C12: every request with method OPTIONS is answered 204 with the CORS
\* headers only and an empty body, whatever its origin, token and url
\* parameters, and nothing is fetched from the upstream.
PreflightAnswered ==
    (/\ last.kind \in {"request", "origin-gated"}
     /\ last.request.method = "OPTIONS")
        => /\ last.response.status = 204
           /\ DOMAIN last.response.headers =
                 {"AccessControlAllowOrigin", "AccessControlAllowMethods",
                  "AccessControlAllowHeaders", "AccessControlMaxAge",
                  "AccessControlExposeHeaders"}
           /\ last.response.body.kind = "null"
           /\ last.fetches = <<>>

\* an OPTIONS request from a foreign origin, without url and without token,
\* is answered 204 by the token-gated handler
PreflightAnsweredReached ==
    /\ last.kind = "request"
    /\ last.request.method = "OPTIONS"
    /\ last.request.origin = OtherOrigin
    /\ last.request.url = Undefined
    /\ last.request.token = Undefined
    /\ last.response.status = 204
    /\ last.fetches = <<>>

\* C13: every non-OPTIONS request without a url query parameter is answered
\* 400 with a JSON body that has both an "error" field and a "help" field, and
\* nothing is fetched from the upstream.
MissingUrlAnswered ==
    (/\ last.kind = "request"
     /\ last.request.method # "OPTIONS"
     /\ last.request.url = Undefined)
        => /\ last.response.status = 400
           /\ last.response.body.kind = "json"
           /\ {"error", "help"} \subseteq DOMAIN last.response.body.json
           /\ last.fetches = <<>>

\* C14: in every revision where the origin gates the handler, a non-OPTIONS
\* request whose Origin header is absent or not in the allow-list is answered
\* 403 with a JSON error body, whatever else it carries, and nothing is
\* fetched from the upstream.
OriginRejected ==
    (/\ last.kind = "origin-gated"
     /\ last.request.method # "OPTIONS"
     /\ LET rev == CHOOSE r \in Revisions : r.name = last.rev
        IN  \/ last.request.origin = Undefined
            \/ \A i \in 1..Len(rev.allowed) : rev.allowed[i] # last.request.origin)
        => /\ last.response.status = 403
           /\ last.response.body.kind = "json"
           /\ "error" \in DOMAIN last.response.body.json
           /\ last.fetches = <<>>

\* C15, as stated: for every upstream response status s outside 2xx the proxy
\* responds with the same status s, Content-Type application/json and a body
\* with an "error" field; the upstream's body and content type are not passed
\* through.
UpstreamErrorAnyStatus ==
    (/\ last.kind \in {"fetch", "origin-gated"}
     /\ last.up.kind = "response"
     /\ last.up.status \notin 200..299)
        => /\ last.response.status = last.up.status
           /\ last.response.headers.ContentType = ApplicationJson
           /\ last.response.body.kind = "json"
           /\ "error" \in DOMAIN last.response.body.json

\* C15, amended: for every upstream response status s outside 2xx that a
\* response with a body may carry (300..599 other than 304) the proxy responds
\* with the same status s, Content-Type application/json and a body with an
\* "error" field; the upstream's body and content type are not passed
\* through. For the other statuses outside 2xx (304, or above 599) it responds
\* 500 with a JSON body with an "error" field.
UpstreamErrorSurfaced ==
    (/\ last.kind \in {"fetch", "origin-gated"}
     /\ last.up.kind = "response"
     /\ last.up.status \notin 200..299)
        => /\ last.response.status =
                 IF last.up.status \in (300..599) \ {304} THEN last.up.status ELSE 500
           /\ last.response.headers.ContentType = ApplicationJson
           /\ last.response.body.kind = "json"
           /\ "error" \in DOMAIN last.response.body.json

\* the upstream answers 404 with an HTML page and the token-gated try block
\* answers 404 with a JSON body
UpstreamErrorSurfacedReached ==
    /\ last.kind = "fetch"
    /\ last.up.kind = "response"
    /\ last.up.status = 404
    /\ last.up.contentType = HtmlType
    /\ last.response.status = 404
    /\ last.response.body.kind = "json"

CorsOnEveryResponse ==
    (last.kind \in {"request", "fetch", "origin-gated"})
        => LET allowed == IF last.kind = "origin-gated"
                          THEN (CHOOSE r \in Revisions : r.name = last.rev).allowed
                          ELSE ALLOWED_ORIGINS
               Member(o) == \E i \in 1..Len(allowed) : allowed[i] = o
               headers == last.response.headers
           IN  /\ "AccessControlAllowOrigin" \in DOMAIN headers
               /\ headers.AccessControlAllowOrigin =
                     IF Member(last.request.origin) THEN last.request.origin ELSE allowed[1]
               /\ Member(headers.AccessControlAllowOrigin)

\* a pass-through response to a request from a foreign origin names the first
\* allowed origin
CorsOnEveryResponseReached ==
    /\ last.kind = "fetch"
    /\ last.request.origin = OtherOrigin
    /\ last.response.status = 206
    /\ last.response.body.kind = "stream"
    /\ last.response.headers.AccessControlAllowOrigin = DefaultOrigin

----------------------------------------------------------------------------
(* Properties of a chain of proxy requests (SpecChain)                     *)

\* C18: when the first target URL of a chain carries the annotation
\* __referer=R, then at every hop of the chain the URL fetched upstream holds
\* no __referer parameter, the fetch sends Referer: R, and every URL the
\* rewriter emits, which is the URL its token is minted for, carries
\* __referer=R.
RefererCarried ==
    (held.kind = "chain" /\ last.kind = "hop")
        => /\ \A i \in 1..Len(last.fetches) :
                 /\ ~Includes(last.fetches[i].url, RefererName)
                 /\ last.fetches[i].headers.Referer = held.referer
           /\ (last.response.status = 200 /\ last.response.body.kind = "text")
                 => \A emitted \in EmittedUrls(last.response.body.text, Self) :
                       LET next == RequestFor(emitted, Undefined)
                       IN  /\ SearchParamsGet(ParseUrl(next.url).search, RefererName)
                                 = held.referer
                           /\ next.token = generateToken(next.url, now)

----------------------------------------------------------------------------
(* Properties of the upstream fetch over time (SpecWait)                   *)

\* C19: every request that reaches the upstream fetch is answered; when the
\* upstream does not deliver (it sends no headers, or it sends the headers and
\* stalls while the playlist body is buffered) the request is answered 500
\* once the 10 s timeout has run: no request whose upstream does not deliver
\* is still waiting after that time.
WaitBounded ==
    (held.kind = "inflight" /\ held.delivers # "all")
        => now - held.started <= FetchTimeoutMs

----------------------------------------------------------------------------
(* Properties of the handlers as a whole (SpecPath)                        *)

\* C20: for every request each handler returns a response: no exception
\* leaves the handler; and whenever handling fails inside the proxy (before
\* the upstream is fetched, or because the fetch fails or times out) the
\* response has status 400, 401, 404 or 500 and a JSON body with an "error"
\* field.
NoUnhandledException ==
    (last.kind \in {"request", "fetch", "path-request"})
        => /\ "response" \in DOMAIN last
           /\ (/\ last.request.method # "OPTIONS"
               /\ \/ last.fetches = <<>>
                  \/ last.kind # "request" /\ last.up.kind \in {"error", "timeout"})
                 => /\ last.response.status \in {400, 401, 404, 500}
                    /\ last.response.body.kind = "json"
                    /\ "error" \in DOMAIN last.response.body.json

----------------------------------------------------------------------------
(* Properties of the error bodies (SpecFetch)                              *)

\* the messages of the exceptions the try blocks of the handlers catch
CaughtMessages ==
    {"fetch failed", "The operation was aborted", "Invalid URL", "URI malformed",
     ResponseThrows(304), ResponseThrows(999),
     FetchParseError.message, FetchTimeoutError.message}

\* C21: outside development mode no 500 response carries the message of the
\* caught exception: its JSON body has no 'details' field, or a 'details'
\* field that is none of the messages the handler can catch. The token-gated
\* handler reads no development flag, so each of its runs counts as outside
\* development mode.
ErrorBodiesLeakNothing ==
    (/\ last.kind \in {"request", "fetch", "origin-gated"}
     /\ last.response.status = 500
     /\ last.kind = "origin-gated" => last.nodeEnv # "development")
        => /\ last.response.body.kind = "json"
           /\ \/ "details" \notin DOMAIN last.response.body.json
              \/ last.response.body.json.details \notin CaughtMessages

----------------------------------------------------------------------------
(* Properties of the client-side token codec (SpecClient)                  *)

\* C22: for every URL and bucket the client's generateToken returns the
\* token the server's generateToken computes for that URL in that bucket, and
\* the server's verifyToken accepts it in that bucket.
ClientTokenMatchesServer ==
    (last.kind = "client-token")
        => /\ last.client.ok
           /\ last.client.token = last.server
           /\ last.accepted

----------------------------------------------------------------------------
(* Properties of the followed lines (SpecFollow)                           *)

\* C23: a GET of an emitted proxy URL, at the endpoint and the time of the
\* rewrite, is not answered 400 or 401 and leads to exactly one upstream
\* fetch, of the URL its line resolves to.
RewrittenUrlsFollowable ==
    (last.kind = "followed")
        => /\ last.response.status \notin {400, 401}
           /\ Len(last.fetches) = 1
           /\ last.fetches[1].url = last.resolved

----------------------------------------------------------------------------
(* Properties of the classification of upstream responses (SpecFetch)      *)

\* s.endsWith(p)
EndsWith(s, p) == Len(s) >= Len(p) /\ SubSeq(s, Len(s) - Len(p) + 1, Len(s)) = p

\* the path of the requested URL ends in '.m3u8' or '.m3u', in either case
EndsInPlaylistExtension(url) ==
    /\ ParseUrl(url).ok
    /\ \/ EndsWith(ToLowerCase(ParseUrl(url).pathname), M3u8Ext)
       \/ EndsWith(ToLowerCase(ParseUrl(url).pathname), <<46, 109, 51, 117>>)

\* C24: a successful upstream response whose content type names no playlist
\* format, for a requested URL whose path does not end in a playlist
\* extension, is streamed through unmodified, whatever else the path or the
\* query string of the URL holds.
ClassifiedByTypeOrExtension ==
    (/\ last.kind \in {"fetch", "origin-gated"}
     /\ Len(last.fetches) = 1
     /\ last.up.kind = "response"
     /\ StatusOk(last.up.status)
     /\ ~Includes(last.up.contentType, StrMpegurl)
     /\ ~Includes(last.up.contentType, StrM3u)
     /\ ~EndsInPlaylistExtension(last.request.url))
        => /\ last.response.body.kind = "stream"
           /\ last.response.body.of = last.up.body

----------------------------------------------------------------------------
(* Properties of the upstream identity headers (SpecFetch)                 *)

\* the referer annotation of a target URL; Undefined when it carries none
AnnotationOf(url) == SearchParamsGet(ParseUrl(url).search, RefererName)

\* the origin both identity headers are to be derived from: the origin of
\* the referer annotation when the target carries one, and the origin of the
\* target otherwise
IdentityOrigin(url) ==
    IF Truthy(AnnotationOf(url)) THEN UrlOrigin(ParseUrl(AnnotationOf(url)))
    ELSE UrlOrigin(ParseUrl(url))

\* C25: every upstream fetch of the token-gated handler carries the fixed
\* User-Agent, a Referer and an Origin; the Origin is, and the Referer lies
\* on, the origin of the referer annotation when the target carries one and
\* the origin of the target otherwise.
IdentityHeaders ==
    (last.kind = "fetch" /\ Len(last.fetches) = 1)
        => LET h == last.fetches[1].headers
           IN  /\ h.UserAgent = "Mozilla/5.0 (Windows NT 10.0; Win64; x64) AppleWebKit/537.36"
               /\ "Referer" \in DOMAIN h
               /\ "Origin" \in DOMAIN h
               /\ h.Origin = IdentityOrigin(last.request.url)
               /\ StartsWith(h.Referer, IdentityOrigin(last.request.url))

----------------------------------------------------------------------------
(* Properties of the upstream fetches of one request (SpecFetch)           *)

\* the position at which the referer annotation starts in a target URL
\* ("?__referer=" or "&__referer="); 0 when the URL carries none
AnnotationAt(url) ==
    IF IndexOf(url, Question \o RefererEq) > 0 THEN IndexOf(url, Question \o RefererEq)
    ELSE IndexOf(url, Ampersand \o RefererEq)

\* a target URL with only its referer annotation removed; the annotation is
\* the last parameter of the URLs the rewrite emits
WithoutAnnotation(url) ==
    IF AnnotationAt(url) = 0 THEN url ELSE SubSeq(url, 1, AnnotationAt(url) - 1)

\* C26: handling one request makes at most one upstream fetch, and that
\* fetch is of the url parameter of the request, the URL its token is bound
\* to, with only the referer annotation removed; none of the URLs a
\* rewritten playlist names is fetched.
OneTokenBoundFetch ==
    (last.kind \in {"request", "fetch"})
        => /\ Len(last.fetches) <= 1
           /\ Len(last.fetches) = 1
                 => last.fetches[1].url = WithoutAnnotation(last.request.url)

----------------------------------------------------------------------------
(* Properties of the step order of the token-gated handler (Spec)          *)

\* C27: the token gate comes before parameter validation: a non-OPTIONS
\* request that lacks the url parameter (so that no token it carries is
\* valid) is answered 401, not 400.
GateBeforeValidation ==
    (/\ last.kind = "request"
     /\ last.request.method # "OPTIONS"
     /\ last.request.url = Undefined)
        => last.response.status = 401

\* C27, amended: the handler evaluates the preflight, then parameter
\* validation, then the token gate, then the try block. An OPTIONS request is
\* answered 204 whatever it carries; any other request without a url is
\* answered 400 whatever its token; a request with a url whose token is
\* missing or fails verification is answered 401; only a request that passed
\* all three reaches the try block. Nothing is fetched before that.
ValidationBeforeGate ==
    (last.kind = "request")
        => IF last.request.method = "OPTIONS"
           THEN last.response.status = 204 /\ last.fetches = <<>>
           ELSE IF ~Truthy(last.request.url)
           THEN last.response.status = 400 /\ last.fetches = <<>>
           ELSE IF \/ ~Truthy(last.request.token)
                   \/ ~verifyToken(last.request.token, last.request.url, now)
           THEN last.response.status = 401 /\ last.fetches = <<>>
           ELSE \E up \in Upstreams :
                   last.response = tokenGatedFetch(last.request, Self, now, up).response

\* a GET without a url and without a token is answered 400, and so is a GET
\* without a url that carries a token minted in this bucket
ValidationBeforeGateReached ==
    /\ last.kind = "request"
    /\ last.request.method = "GET"
    /\ last.request.url = Undefined
    /\ last.request.token = generateToken(<<57>>, now)
    /\ last.response.status = 400
    /\ last.response.body.json.error = "Missing url parameter"
    /\ last.fetches = <<>>

----------------------------------------------------------------------------
(* Properties of two instances of the path-based proxy (SpecInstances)     *)

\* the clean paths an instance has minted: the keys of its Map that lead to
\* an encrypted key of the same Map
MintedPaths(mappings) ==
    {k \in DOMAIN mappings : mappings[k] \in DOMAIN mappings}

\* C28: a clean path that the first instance minted and the second instance
\* never registered is answered 404 'Stream not found' with a JSON body by
\* the second instance, which fetches nothing for it.
UnknownPathNotFound ==
    (/\ last.kind = "peer-request"
     /\ last.request.method = "GET"
     /\ \E k \in MintedPaths(urlMappings) \ DOMAIN peerMappings :
           last.request.pathname = ApiProxy \o encodeURIComponent(k))
        => /\ "response" \in DOMAIN last
           /\ last.response.status = 404
           /\ last.response.body.kind = "json"
           /\ last.response.body.json.error = "Stream not found"
           /\ last.fetches = <<>>

----------------------------------------------------------------------------
(* Properties of the Map of the path-based proxy (SpecMap)                 *)

\* C29: after any sequence of createProxyPath calls, resolveUrl(p) yields u
\* for every path p that a call createProxyPath(u) returned, whichever URLs
\* were registered later.
MintedPathResolves ==
    (last.kind = "resolved")
        => \A pair \in Minted : pair[1] = last.path => last.url = pair[2]

----------------------------------------------------------------------------
(* Properties of the stream-token cache (SpecCache)                        *)

\* C30: whatever calls and clock advances came before, getStreamToken
\* returns a cached token only while more than 60 s remain before its
\* recorded expiresAt, and otherwise sends a request to the backend; a token
\* the backend answers with is stored under the channel id of the call with
\* expiresAt counted from the moment of the answer; a returned token whose
\* expiresIn is above 60 s has more than 60 s left before its recorded
\* expiresAt when it is returned; a failed request leaves the cache as it
\* was.
StreamTokenFresh ==
    /\ (last.kind = "token" /\ last.cached)
          => /\ last.expiresAt > now + FreshMarginMs
             /\ last.channelId \in DOMAIN tokenCache
             /\ tokenCache[last.channelId].token = last.token
    /\ (last.kind = "token" /\ ~last.cached)
          => /\ last.channelId \in DOMAIN tokenCache
             /\ tokenCache[last.channelId].token = last.token
             /\ tokenCache[last.channelId].expiresAt = now + last.expiresIn * 1000
             /\ last.token.channelId = last.channelId
    /\ (last.kind = "token" /\ last.expiresIn > 60)
          => last.expiresAt - now > FreshMarginMs
    /\ (last.kind = "requested")
          => \/ last.channelId \notin DOMAIN tokenCache
             \/ tokenCache[last.channelId].expiresAt <= now + FreshMarginMs
    /\ (last.kind = "failed") => tokenCache = last.before

\* a token that was stored some time ago is returned from the cache while
\* another call is in flight
StreamTokenFreshReached ==
    /\ last.kind = "token"
    /\ last.cached
    /\ last.token.issuedAt < now
    /\ Len(Pending) > 0

====
